---- MODULE Spec2Model ----
(***************************************************************************)
(* Model of medicine_scraper.py: the field extractors (extract_field,      *)
(* parse_price_info, clean_price_text, extract_quantity, extract_image),   *)
(* the single-page scraper scrape_medicine and the batch runner            *)
(* scrape_medicines_batch.                                                 *)
(*                                                                         *)
(* A Python str is a sequence of one-character strings; a regular          *)
(* expression is a sequence of items interpreted by MatchHere with         *)
(* Python's backtracking priorities (greedy, lazy, alternation order).     *)
(***************************************************************************)
EXTENDS Integers, Sequences, FiniteSets, TLC

VARIABLES
    urls,           \* scrape_medicines_batch: the urls argument
    delay,          \* scrape_medicines_batch: the delay argument
    save_progress,  \* scrape_medicines_batch: the save_progress argument
    pc,             \* where the batch run stands
    i,              \* the index of enumerate(urls, 1)
    results,        \* the list of records accumulated
    snapshots,      \* progress_backup_<k>.csv written: k -> its rows
    json_snapshots, \* progress_backup_<k>.json written: k -> its rows
    returned,       \* the rows of the DataFrame returned, once pc = "returned"
    events,         \* history: the sleeps, requests and responses in order
    last,           \* history: the last call of scrape_medicine and its record
    faults,         \* history: the failures that happened
    interrupted_at, \* where the run stood when the interrupt arrived, or "none"
    summary,        \* main: what display_summary printed
    final_files,    \* main: the files save_results wrote
    main_result,    \* main: the value it returns
    price_text,     \* parse_price_info, clean_price_text: the argument
    parsed_prices,  \* parse_price_info: the dict returned (None before)
    cleaned_price,  \* clean_price_text: the str returned (None before)
    soup,           \* extract_field, scrape_medicine: the parsed document
    selectors,      \* extract_field: the selectors argument
    field_text,     \* extract_field: the str returned (None before)
    record          \* scrape_medicine: the dict returned (None before)

vars == <<urls, delay, save_progress, pc, i, results, snapshots,
          json_snapshots, returned, events, last, faults, interrupted_at,
          summary, final_files, main_result, price_text,
          parsed_prices, cleaned_price, soup, selectors, field_text, record>>

main_vars == <<interrupted_at, summary, final_files, main_result>>

batch_vars == <<urls, delay, save_progress, pc, i, results, snapshots,
                json_snapshots, returned, events, last, faults, main_vars>>

price_vars == <<price_text, parsed_prices, cleaned_price>>

page_vars == <<soup, selectors, field_text, record>>

\* Python's None.
None == <<"None">>

(***************************************************************************)
(* Characters                                                              *)
(*                                                                         *)
(* A str is a sequence of characters, a character a string: the character  *)
(* itself where a TLA+ string can hold it ("\n", "\t", "\r", "\f" for the  *)
(* four escapes), and "U+" with its code point in hexadecimal where it     *)
(* cannot (U+0060, and above U+00FF every character whose UTF-16 units do  *)
(* not all end in a byte of 80 or more): "U+0969" is DEVANAGARI DIGIT      *)
(* THREE.  The tables are those of the Unicode database of Python 3.11.    *)
(***************************************************************************)

\* str.isspace(): what str.split(), str.strip() and \s take for whitespace.
Whitespace ==
    {"\t", "\n", "", "\f", "\r", "", "", "", "", " ", "", " ", " ", "U+2000", "U+2001",
     "U+2002", "U+2003", "U+2004", "U+2005", "U+2006", "U+2007", "U+2008", "U+2009", "U+200A",
     "U+2028", "U+2029", "U+202F", "U+205F", "U+3000"}

\* The decimal digits (category Nd), the ten of each script from 0 to 9 (a
\* line for each script): what \d matches and what float() reads.
DecimalDigits ==
    <<"0","1","2","3","4","5","6","7","8","9",
      "U+0660","U+0661","U+0662","U+0663","U+0664","U+0665","U+0666","U+0667","U+0668","U+0669",
      "۰","۱","۲","۳","۴","۵","۶","۷","۸","۹",
      "߀","߁","߂","߃","߄","߅","߆","߇","߈","߉",
      "U+0966","U+0967","U+0968","U+0969","U+096A","U+096B","U+096C","U+096D","U+096E","U+096F",
      "০","১","২","৩","৪","৫","৬","৭","৮","৯",
      "U+0A66","U+0A67","U+0A68","U+0A69","U+0A6A","U+0A6B","U+0A6C","U+0A6D","U+0A6E","U+0A6F",
      "૦","૧","૨","૩","૪","૫","૬","૭","૮","૯",
      "U+0B66","U+0B67","U+0B68","U+0B69","U+0B6A","U+0B6B","U+0B6C","U+0B6D","U+0B6E","U+0B6F",
      "௦","௧","௨","௩","௪","௫","௬","௭","௮","௯",
      "U+0C66","U+0C67","U+0C68","U+0C69","U+0C6A","U+0C6B","U+0C6C","U+0C6D","U+0C6E","U+0C6F",
      "೦","೧","೨","೩","೪","೫","೬","೭","೮","೯",
      "U+0D66","U+0D67","U+0D68","U+0D69","U+0D6A","U+0D6B","U+0D6C","U+0D6D","U+0D6E","U+0D6F",
      "෦","෧","෨","෩","෪","෫","෬","෭","෮","෯",
      "U+0E50","U+0E51","U+0E52","U+0E53","U+0E54","U+0E55","U+0E56","U+0E57","U+0E58","U+0E59",
      "໐","໑","໒","໓","໔","໕","໖","໗","໘","໙",
      "U+0F20","U+0F21","U+0F22","U+0F23","U+0F24","U+0F25","U+0F26","U+0F27","U+0F28","U+0F29",
      "U+1040","U+1041","U+1042","U+1043","U+1044","U+1045","U+1046","U+1047","U+1048","U+1049",
      "႐","႑","႒","႓","႔","႕","႖","႗","႘","႙",
      "០","១","២","៣","៤","៥","៦","៧","៨","៩",
      "U+1810","U+1811","U+1812","U+1813","U+1814","U+1815","U+1816","U+1817","U+1818","U+1819",
      "U+1946","U+1947","U+1948","U+1949","U+194A","U+194B","U+194C","U+194D","U+194E","U+194F",
      "᧐","᧑","᧒","᧓","᧔","᧕","᧖","᧗","᧘","᧙",
      "᪀","᪁","᪂","᪃","᪄","᪅","᪆","᪇","᪈","᪉",
      "᪐","᪑","᪒","᪓","᪔","᪕","᪖","᪗","᪘","᪙",
      "U+1B50","U+1B51","U+1B52","U+1B53","U+1B54","U+1B55","U+1B56","U+1B57","U+1B58","U+1B59",
      "᮰","᮱","᮲","᮳","᮴","᮵","᮶","᮷","᮸","᮹",
      "U+1C40","U+1C41","U+1C42","U+1C43","U+1C44","U+1C45","U+1C46","U+1C47","U+1C48","U+1C49",
      "U+1C50","U+1C51","U+1C52","U+1C53","U+1C54","U+1C55","U+1C56","U+1C57","U+1C58","U+1C59",
      "U+A620","U+A621","U+A622","U+A623","U+A624","U+A625","U+A626","U+A627","U+A628","U+A629",
      "꣐","꣑","꣒","꣓","꣔","꣕","꣖","꣗","꣘","꣙",
      "U+A900","U+A901","U+A902","U+A903","U+A904","U+A905","U+A906","U+A907","U+A908","U+A909",
      "꧐","꧑","꧒","꧓","꧔","꧕","꧖","꧗","꧘","꧙",
      "꧰","꧱","꧲","꧳","꧴","꧵","꧶","꧷","꧸","꧹",
      "U+AA50","U+AA51","U+AA52","U+AA53","U+AA54","U+AA55","U+AA56","U+AA57","U+AA58","U+AA59",
      "꯰","꯱","꯲","꯳","꯴","꯵","꯶","꯷","꯸","꯹",
      "U+FF10","U+FF11","U+FF12","U+FF13","U+FF14","U+FF15","U+FF16","U+FF17","U+FF18","U+FF19",
      "U+104A0","U+104A1","U+104A2","U+104A3","U+104A4","U+104A5","U+104A6","U+104A7","U+104A8","U+104A9",
      "U+10D30","U+10D31","U+10D32","U+10D33","U+10D34","U+10D35","U+10D36","U+10D37","U+10D38","U+10D39",
      "U+11066","U+11067","U+11068","U+11069","U+1106A","U+1106B","U+1106C","U+1106D","U+1106E","U+1106F",
      "U+110F0","U+110F1","U+110F2","U+110F3","U+110F4","U+110F5","U+110F6","U+110F7","U+110F8","U+110F9",
      "U+11136","U+11137","U+11138","U+11139","U+1113A","U+1113B","U+1113C","U+1113D","U+1113E","U+1113F",
      "U+111D0","U+111D1","U+111D2","U+111D3","U+111D4","U+111D5","U+111D6","U+111D7","U+111D8","U+111D9",
      "U+112F0","U+112F1","U+112F2","U+112F3","U+112F4","U+112F5","U+112F6","U+112F7","U+112F8","U+112F9",
      "U+11450","U+11451","U+11452","U+11453","U+11454","U+11455","U+11456","U+11457","U+11458","U+11459",
      "U+114D0","U+114D1","U+114D2","U+114D3","U+114D4","U+114D5","U+114D6","U+114D7","U+114D8","U+114D9",
      "U+11650","U+11651","U+11652","U+11653","U+11654","U+11655","U+11656","U+11657","U+11658","U+11659",
      "U+116C0","U+116C1","U+116C2","U+116C3","U+116C4","U+116C5","U+116C6","U+116C7","U+116C8","U+116C9",
      "U+11730","U+11731","U+11732","U+11733","U+11734","U+11735","U+11736","U+11737","U+11738","U+11739",
      "U+118E0","U+118E1","U+118E2","U+118E3","U+118E4","U+118E5","U+118E6","U+118E7","U+118E8","U+118E9",
      "U+11950","U+11951","U+11952","U+11953","U+11954","U+11955","U+11956","U+11957","U+11958","U+11959",
      "U+11C50","U+11C51","U+11C52","U+11C53","U+11C54","U+11C55","U+11C56","U+11C57","U+11C58","U+11C59",
      "U+11D50","U+11D51","U+11D52","U+11D53","U+11D54","U+11D55","U+11D56","U+11D57","U+11D58","U+11D59",
      "U+11DA0","U+11DA1","U+11DA2","U+11DA3","U+11DA4","U+11DA5","U+11DA6","U+11DA7","U+11DA8","U+11DA9",
      "U+16A60","U+16A61","U+16A62","U+16A63","U+16A64","U+16A65","U+16A66","U+16A67","U+16A68","U+16A69",
      "U+16AC0","U+16AC1","U+16AC2","U+16AC3","U+16AC4","U+16AC5","U+16AC6","U+16AC7","U+16AC8","U+16AC9",
      "U+16B50","U+16B51","U+16B52","U+16B53","U+16B54","U+16B55","U+16B56","U+16B57","U+16B58","U+16B59",
      "U+1D7CE","U+1D7CF","U+1D7D0","U+1D7D1","U+1D7D2","U+1D7D3","U+1D7D4","U+1D7D5","U+1D7D6","U+1D7D7",
      "U+1D7D8","U+1D7D9","U+1D7DA","U+1D7DB","U+1D7DC","U+1D7DD","U+1D7DE","U+1D7DF","U+1D7E0","U+1D7E1",
      "U+1D7E2","U+1D7E3","U+1D7E4","U+1D7E5","U+1D7E6","U+1D7E7","U+1D7E8","U+1D7E9","U+1D7EA","U+1D7EB",
      "U+1D7EC","U+1D7ED","U+1D7EE","U+1D7EF","U+1D7F0","U+1D7F1","U+1D7F2","U+1D7F3","U+1D7F4","U+1D7F5",
      "U+1D7F6","U+1D7F7","U+1D7F8","U+1D7F9","U+1D7FA","U+1D7FB","U+1D7FC","U+1D7FD","U+1D7FE","U+1D7FF",
      "U+1E140","U+1E141","U+1E142","U+1E143","U+1E144","U+1E145","U+1E146","U+1E147","U+1E148","U+1E149",
      "U+1E2F0","U+1E2F1","U+1E2F2","U+1E2F3","U+1E2F4","U+1E2F5","U+1E2F6","U+1E2F7","U+1E2F8","U+1E2F9",
      "U+1E950","U+1E951","U+1E952","U+1E953","U+1E954","U+1E955","U+1E956","U+1E957","U+1E958","U+1E959",
      "U+1FBF0","U+1FBF1","U+1FBF2","U+1FBF3","U+1FBF4","U+1FBF5","U+1FBF6","U+1FBF7","U+1FBF8","U+1FBF9">>

\* The characters str.lower() changes, in code point order ...
UpperCharacters ==
    <<"A", "B", "C", "D", "E", "F", "G", "H", "I", "J", "K", "L", "M", "N", "O", "P", "Q", "R",
      "S", "T", "U", "V", "W", "X", "Y", "Z", "À", "Á", "Â", "Ã", "Ä", "Å", "Æ", "Ç", "È", "É",
      "Ê", "Ë", "Ì", "Í", "Î", "Ï", "Ð", "Ñ", "Ò", "Ó", "Ô", "Õ", "Ö", "Ø", "Ù", "Ú", "Û", "Ü",
      "Ý", "Þ", "U+0100", "U+0102", "U+0104", "U+0106", "U+0108", "U+010A", "U+010C", "U+010E",
      "U+0110", "U+0112", "U+0114", "U+0116", "U+0118", "U+011A", "U+011C", "U+011E", "U+0120",
      "U+0122", "U+0124", "U+0126", "U+0128", "U+012A", "U+012C", "U+012E", "U+0130", "U+0132",
      "U+0134", "U+0136", "U+0139", "U+013B", "U+013D", "U+013F", "U+0141", "U+0143", "U+0145",
      "U+0147", "U+014A", "U+014C", "U+014E", "U+0150", "U+0152", "U+0154", "U+0156", "U+0158",
      "U+015A", "U+015C", "U+015E", "U+0160", "U+0162", "U+0164", "U+0166", "U+0168", "U+016A",
      "U+016C", "U+016E", "U+0170", "U+0172", "U+0174", "U+0176", "U+0178", "U+0179", "U+017B",
      "U+017D", "Ɓ", "Ƃ", "Ƅ", "Ɔ", "Ƈ", "Ɖ", "Ɗ", "Ƌ", "Ǝ", "Ə", "Ɛ", "Ƒ", "Ɠ", "Ɣ", "Ɩ", "Ɨ",
      "Ƙ", "Ɯ", "Ɲ", "Ɵ", "Ơ", "Ƣ", "Ƥ", "Ʀ", "Ƨ", "Ʃ", "Ƭ", "Ʈ", "Ư", "Ʊ", "Ʋ", "Ƴ", "Ƶ", "Ʒ",
      "Ƹ", "Ƽ", "Ǆ", "ǅ", "Ǉ", "ǈ", "Ǌ", "ǋ", "Ǎ", "Ǐ", "Ǒ", "Ǔ", "Ǖ", "Ǘ", "Ǚ", "Ǜ", "Ǟ", "Ǡ",
      "Ǣ", "Ǥ", "Ǧ", "Ǩ", "Ǫ", "Ǭ", "Ǯ", "Ǳ", "ǲ", "Ǵ", "Ƕ", "Ƿ", "Ǹ", "Ǻ", "Ǽ", "Ǿ", "U+0200",
      "U+0202", "U+0204", "U+0206", "U+0208", "U+020A", "U+020C", "U+020E", "U+0210", "U+0212",
      "U+0214", "U+0216", "U+0218", "U+021A", "U+021C", "U+021E", "U+0220", "U+0222", "U+0224",
      "U+0226", "U+0228", "U+022A", "U+022C", "U+022E", "U+0230", "U+0232", "U+023A", "U+023B",
      "U+023D", "U+023E", "U+0241", "U+0243", "U+0244", "U+0245", "U+0246", "U+0248", "U+024A",
      "U+024C", "U+024E", "U+0370", "U+0372", "U+0376", "U+037F", "Ά", "Έ", "Ή", "Ί", "Ό", "Ύ",
      "Ώ", "Α", "Β", "Γ", "Δ", "Ε", "Ζ", "Η", "Θ", "Ι", "Κ", "Λ", "Μ", "Ν", "Ξ", "Ο", "Π", "Ρ",
      "Σ", "Τ", "Υ", "Φ", "Χ", "Ψ", "Ω", "Ϊ", "Ϋ", "Ϗ", "Ϙ", "Ϛ", "Ϝ", "Ϟ", "Ϡ", "Ϣ", "Ϥ", "Ϧ",
      "Ϩ", "Ϫ", "Ϭ", "Ϯ", "ϴ", "Ϸ", "Ϲ", "Ϻ", "Ͻ", "Ͼ", "Ͽ", "U+0400", "U+0401", "U+0402",
      "U+0403", "U+0404", "U+0405", "U+0406", "U+0407", "U+0408", "U+0409", "U+040A", "U+040B",
      "U+040C", "U+040D", "U+040E", "U+040F", "U+0410", "U+0411", "U+0412", "U+0413", "U+0414",
      "U+0415", "U+0416", "U+0417", "U+0418", "U+0419", "U+041A", "U+041B", "U+041C", "U+041D",
      "U+041E", "U+041F", "U+0420", "U+0421", "U+0422", "U+0423", "U+0424", "U+0425", "U+0426",
      "U+0427", "U+0428", "U+0429", "U+042A", "U+042B", "U+042C", "U+042D", "U+042E", "U+042F",
      "U+0460", "U+0462", "U+0464", "U+0466", "U+0468", "U+046A", "U+046C", "U+046E", "U+0470",
      "U+0472", "U+0474", "U+0476", "U+0478", "U+047A", "U+047C", "U+047E", "Ҁ", "Ҋ", "Ҍ", "Ҏ",
      "Ґ", "Ғ", "Ҕ", "Җ", "Ҙ", "Қ", "Ҝ", "Ҟ", "Ҡ", "Ң", "Ҥ", "Ҧ", "Ҩ", "Ҫ", "Ҭ", "Ү", "Ұ", "Ҳ",
      "Ҵ", "Ҷ", "Ҹ", "Һ", "Ҽ", "Ҿ", "Ӏ", "Ӂ", "Ӄ", "Ӆ", "Ӈ", "Ӊ", "Ӌ", "Ӎ", "Ӑ", "Ӓ", "Ӕ", "Ӗ",
      "Ә", "Ӛ", "Ӝ", "Ӟ", "Ӡ", "Ӣ", "Ӥ", "Ӧ", "Ө", "Ӫ", "Ӭ", "Ӯ", "Ӱ", "Ӳ", "Ӵ", "Ӷ", "Ӹ", "Ӻ",
      "Ӽ", "Ӿ", "U+0500", "U+0502", "U+0504", "U+0506", "U+0508", "U+050A", "U+050C", "U+050E",
      "U+0510", "U+0512", "U+0514", "U+0516", "U+0518", "U+051A", "U+051C", "U+051E", "U+0520",
      "U+0522", "U+0524", "U+0526", "U+0528", "U+052A", "U+052C", "U+052E", "U+0531", "U+0532",
      "U+0533", "U+0534", "U+0535", "U+0536", "U+0537", "U+0538", "U+0539", "U+053A", "U+053B",
      "U+053C", "U+053D", "U+053E", "U+053F", "U+0540", "U+0541", "U+0542", "U+0543", "U+0544",
      "U+0545", "U+0546", "U+0547", "U+0548", "U+0549", "U+054A", "U+054B", "U+054C", "U+054D",
      "U+054E", "U+054F", "U+0550", "U+0551", "U+0552", "U+0553", "U+0554", "U+0555", "U+0556",
      "Ⴀ", "Ⴁ", "Ⴂ", "Ⴃ", "Ⴄ", "Ⴅ", "Ⴆ", "Ⴇ", "Ⴈ", "Ⴉ", "Ⴊ", "Ⴋ", "Ⴌ", "Ⴍ", "Ⴎ", "Ⴏ", "Ⴐ", "Ⴑ",
      "Ⴒ", "Ⴓ", "Ⴔ", "Ⴕ", "Ⴖ", "Ⴗ", "Ⴘ", "Ⴙ", "Ⴚ", "Ⴛ", "Ⴜ", "Ⴝ", "Ⴞ", "Ⴟ", "Ⴠ", "Ⴡ", "Ⴢ", "Ⴣ",
      "Ⴤ", "Ⴥ", "Ⴧ", "Ⴭ", "Ꭰ", "Ꭱ", "Ꭲ", "Ꭳ", "Ꭴ", "Ꭵ", "Ꭶ", "Ꭷ", "Ꭸ", "Ꭹ", "Ꭺ", "Ꭻ", "Ꭼ", "Ꭽ",
      "Ꭾ", "Ꭿ", "Ꮀ", "Ꮁ", "Ꮂ", "Ꮃ", "Ꮄ", "Ꮅ", "Ꮆ", "Ꮇ", "Ꮈ", "Ꮉ", "Ꮊ", "Ꮋ", "Ꮌ", "Ꮍ", "Ꮎ", "Ꮏ",
      "Ꮐ", "Ꮑ", "Ꮒ", "Ꮓ", "Ꮔ", "Ꮕ", "Ꮖ", "Ꮗ", "Ꮘ", "Ꮙ", "Ꮚ", "Ꮛ", "Ꮜ", "Ꮝ", "Ꮞ", "Ꮟ", "Ꮠ", "Ꮡ",
      "Ꮢ", "Ꮣ", "Ꮤ", "Ꮥ", "Ꮦ", "Ꮧ", "Ꮨ", "Ꮩ", "Ꮪ", "Ꮫ", "Ꮬ", "Ꮭ", "Ꮮ", "Ꮯ", "Ꮰ", "Ꮱ", "Ꮲ", "Ꮳ",
      "Ꮴ", "Ꮵ", "Ꮶ", "Ꮷ", "Ꮸ", "Ꮹ", "Ꮺ", "Ꮻ", "Ꮼ", "Ꮽ", "Ꮾ", "Ꮿ", "Ᏸ", "Ᏹ", "Ᏺ", "Ᏻ", "Ᏼ", "Ᏽ",
      "Ა", "Ბ", "Გ", "Დ", "Ე", "Ვ", "Ზ", "Თ", "Ი", "Კ", "Ლ", "Მ", "Ნ", "Ო", "Პ", "Ჟ", "Რ", "Ს",
      "Ტ", "Უ", "Ფ", "Ქ", "Ღ", "Ყ", "Შ", "Ჩ", "Ც", "Ძ", "Წ", "Ჭ", "Ხ", "Ჯ", "Ჰ", "Ჱ", "Ჲ", "Ჳ",
      "Ჴ", "Ჵ", "Ჶ", "Ჷ", "Ჸ", "Ჹ", "Ჺ", "Ჽ", "Ჾ", "Ჿ", "U+1E00", "U+1E02", "U+1E04", "U+1E06",
      "U+1E08", "U+1E0A", "U+1E0C", "U+1E0E", "U+1E10", "U+1E12", "U+1E14", "U+1E16", "U+1E18",
      "U+1E1A", "U+1E1C", "U+1E1E", "U+1E20", "U+1E22", "U+1E24", "U+1E26", "U+1E28", "U+1E2A",
      "U+1E2C", "U+1E2E", "U+1E30", "U+1E32", "U+1E34", "U+1E36", "U+1E38", "U+1E3A", "U+1E3C",
      "U+1E3E", "U+1E40", "U+1E42", "U+1E44", "U+1E46", "U+1E48", "U+1E4A", "U+1E4C", "U+1E4E",
      "U+1E50", "U+1E52", "U+1E54", "U+1E56", "U+1E58", "U+1E5A", "U+1E5C", "U+1E5E", "U+1E60",
      "U+1E62", "U+1E64", "U+1E66", "U+1E68", "U+1E6A", "U+1E6C", "U+1E6E", "U+1E70", "U+1E72",
      "U+1E74", "U+1E76", "U+1E78", "U+1E7A", "U+1E7C", "U+1E7E", "Ẁ", "Ẃ", "Ẅ", "Ẇ", "Ẉ", "Ẋ",
      "Ẍ", "Ẏ", "Ẑ", "Ẓ", "Ẕ", "ẞ", "Ạ", "Ả", "Ấ", "Ầ", "Ẩ", "Ẫ", "Ậ", "Ắ", "Ằ", "Ẳ", "Ẵ", "Ặ",
      "Ẹ", "Ẻ", "Ẽ", "Ế", "Ề", "Ể", "Ễ", "Ệ", "Ỉ", "Ị", "Ọ", "Ỏ", "Ố", "Ồ", "Ổ", "Ỗ", "Ộ", "Ớ",
      "Ờ", "Ở", "Ỡ", "Ợ", "Ụ", "Ủ", "Ứ", "Ừ", "Ử", "Ữ", "Ự", "Ỳ", "Ỵ", "Ỷ", "Ỹ", "Ỻ", "Ỽ", "Ỿ",
      "U+1F08", "U+1F09", "U+1F0A", "U+1F0B", "U+1F0C", "U+1F0D", "U+1F0E", "U+1F0F", "U+1F18",
      "U+1F19", "U+1F1A", "U+1F1B", "U+1F1C", "U+1F1D", "U+1F28", "U+1F29", "U+1F2A", "U+1F2B",
      "U+1F2C", "U+1F2D", "U+1F2E", "U+1F2F", "U+1F38", "U+1F39", "U+1F3A", "U+1F3B", "U+1F3C",
      "U+1F3D", "U+1F3E", "U+1F3F", "U+1F48", "U+1F49", "U+1F4A", "U+1F4B", "U+1F4C", "U+1F4D",
      "U+1F59", "U+1F5B", "U+1F5D", "U+1F5F", "U+1F68", "U+1F69", "U+1F6A", "U+1F6B", "U+1F6C",
      "U+1F6D", "U+1F6E", "U+1F6F", "ᾈ", "ᾉ", "ᾊ", "ᾋ", "ᾌ", "ᾍ", "ᾎ", "ᾏ", "ᾘ", "ᾙ", "ᾚ", "ᾛ",
      "ᾜ", "ᾝ", "ᾞ", "ᾟ", "ᾨ", "ᾩ", "ᾪ", "ᾫ", "ᾬ", "ᾭ", "ᾮ", "ᾯ", "Ᾰ", "Ᾱ", "Ὰ", "Ά", "ᾼ", "Ὲ",
      "Έ", "Ὴ", "Ή", "ῌ", "Ῐ", "Ῑ", "Ὶ", "Ί", "Ῠ", "Ῡ", "Ὺ", "Ύ", "Ῥ", "Ὸ", "Ό", "Ὼ", "Ώ", "ῼ",
      "U+2126", "U+212A", "U+212B", "U+2132", "U+2160", "U+2161", "U+2162", "U+2163", "U+2164",
      "U+2165", "U+2166", "U+2167", "U+2168", "U+2169", "U+216A", "U+216B", "U+216C", "U+216D",
      "U+216E", "U+216F", "Ↄ", "Ⓐ", "Ⓑ", "Ⓒ", "Ⓓ", "Ⓔ", "Ⓕ", "Ⓖ", "Ⓗ", "Ⓘ", "Ⓙ", "Ⓚ", "Ⓛ", "Ⓜ",
      "Ⓝ", "Ⓞ", "Ⓟ", "Ⓠ", "Ⓡ", "Ⓢ", "Ⓣ", "Ⓤ", "Ⓥ", "Ⓦ", "Ⓧ", "Ⓨ", "Ⓩ", "U+2C00", "U+2C01",
      "U+2C02", "U+2C03", "U+2C04", "U+2C05", "U+2C06", "U+2C07", "U+2C08", "U+2C09", "U+2C0A",
      "U+2C0B", "U+2C0C", "U+2C0D", "U+2C0E", "U+2C0F", "U+2C10", "U+2C11", "U+2C12", "U+2C13",
      "U+2C14", "U+2C15", "U+2C16", "U+2C17", "U+2C18", "U+2C19", "U+2C1A", "U+2C1B", "U+2C1C",
      "U+2C1D", "U+2C1E", "U+2C1F", "U+2C20", "U+2C21", "U+2C22", "U+2C23", "U+2C24", "U+2C25",
      "U+2C26", "U+2C27", "U+2C28", "U+2C29", "U+2C2A", "U+2C2B", "U+2C2C", "U+2C2D", "U+2C2E",
      "U+2C2F", "U+2C60", "U+2C62", "U+2C63", "U+2C64", "U+2C67", "U+2C69", "U+2C6B", "U+2C6D",
      "U+2C6E", "U+2C6F", "U+2C70", "U+2C72", "U+2C75", "U+2C7E", "U+2C7F", "Ⲁ", "Ⲃ", "Ⲅ", "Ⲇ",
      "Ⲉ", "Ⲋ", "Ⲍ", "Ⲏ", "Ⲑ", "Ⲓ", "Ⲕ", "Ⲗ", "Ⲙ", "Ⲛ", "Ⲝ", "Ⲟ", "Ⲡ", "Ⲣ", "Ⲥ", "Ⲧ", "Ⲩ", "Ⲫ",
      "Ⲭ", "Ⲯ", "Ⲱ", "Ⲳ", "Ⲵ", "Ⲷ", "Ⲹ", "Ⲻ", "Ⲽ", "Ⲿ", "Ⳁ", "Ⳃ", "Ⳅ", "Ⳇ", "Ⳉ", "Ⳋ", "Ⳍ", "Ⳏ",
      "Ⳑ", "Ⳓ", "Ⳕ", "Ⳗ", "Ⳙ", "Ⳛ", "Ⳝ", "Ⳟ", "Ⳡ", "Ⳣ", "Ⳬ", "Ⳮ", "Ⳳ", "U+A640", "U+A642",
      "U+A644", "U+A646", "U+A648", "U+A64A", "U+A64C", "U+A64E", "U+A650", "U+A652", "U+A654",
      "U+A656", "U+A658", "U+A65A", "U+A65C", "U+A65E", "U+A660", "U+A662", "U+A664", "U+A666",
      "U+A668", "U+A66A", "U+A66C", "Ꚁ", "Ꚃ", "Ꚅ", "Ꚇ", "Ꚉ", "Ꚋ", "Ꚍ", "Ꚏ", "Ꚑ", "Ꚓ", "Ꚕ", "Ꚗ",
      "Ꚙ", "Ꚛ", "U+A722", "U+A724", "U+A726", "U+A728", "U+A72A", "U+A72C", "U+A72E", "U+A732",
      "U+A734", "U+A736", "U+A738", "U+A73A", "U+A73C", "U+A73E", "U+A740", "U+A742", "U+A744",
      "U+A746", "U+A748", "U+A74A", "U+A74C", "U+A74E", "U+A750", "U+A752", "U+A754", "U+A756",
      "U+A758", "U+A75A", "U+A75C", "U+A75E", "U+A760", "U+A762", "U+A764", "U+A766", "U+A768",
      "U+A76A", "U+A76C", "U+A76E", "U+A779", "U+A77B", "U+A77D", "U+A77E", "Ꞁ", "Ꞃ", "Ꞅ", "Ꞇ",
      "Ꞌ", "Ɥ", "Ꞑ", "Ꞓ", "Ꞗ", "Ꞙ", "Ꞛ", "Ꞝ", "Ꞟ", "Ꞡ", "Ꞣ", "Ꞥ", "Ꞧ", "Ꞩ", "Ɦ", "Ɜ", "Ɡ", "Ɬ",
      "Ɪ", "Ʞ", "Ʇ", "Ʝ", "Ꭓ", "Ꞵ", "Ꞷ", "Ꞹ", "Ꞻ", "Ꞽ", "Ꞿ", "Ꟁ", "Ꟃ", "Ꞔ", "Ʂ", "Ᶎ", "Ꟈ", "Ꟊ",
      "Ꟑ", "Ꟗ", "Ꟙ", "Ꟶ", "U+FF21", "U+FF22", "U+FF23", "U+FF24", "U+FF25", "U+FF26", "U+FF27",
      "U+FF28", "U+FF29", "U+FF2A", "U+FF2B", "U+FF2C", "U+FF2D", "U+FF2E", "U+FF2F", "U+FF30",
      "U+FF31", "U+FF32", "U+FF33", "U+FF34", "U+FF35", "U+FF36", "U+FF37", "U+FF38", "U+FF39",
      "U+FF3A", "U+10400", "U+10401", "U+10402", "U+10403", "U+10404", "U+10405", "U+10406",
      "U+10407", "U+10408", "U+10409", "U+1040A", "U+1040B", "U+1040C", "U+1040D", "U+1040E",
      "U+1040F", "U+10410", "U+10411", "U+10412", "U+10413", "U+10414", "U+10415", "U+10416",
      "U+10417", "U+10418", "U+10419", "U+1041A", "U+1041B", "U+1041C", "U+1041D", "U+1041E",
      "U+1041F", "U+10420", "U+10421", "U+10422", "U+10423", "U+10424", "U+10425", "U+10426",
      "U+10427", "U+104B0", "U+104B1", "U+104B2", "U+104B3", "U+104B4", "U+104B5", "U+104B6",
      "U+104B7", "U+104B8", "U+104B9", "U+104BA", "U+104BB", "U+104BC", "U+104BD", "U+104BE",
      "U+104BF", "U+104C0", "U+104C1", "U+104C2", "U+104C3", "U+104C4", "U+104C5", "U+104C6",
      "U+104C7", "U+104C8", "U+104C9", "U+104CA", "U+104CB", "U+104CC", "U+104CD", "U+104CE",
      "U+104CF", "U+104D0", "U+104D1", "U+104D2", "U+104D3", "U+10570", "U+10571", "U+10572",
      "U+10573", "U+10574", "U+10575", "U+10576", "U+10577", "U+10578", "U+10579", "U+1057A",
      "U+1057C", "U+1057D", "U+1057E", "U+1057F", "U+10580", "U+10581", "U+10582", "U+10583",
      "U+10584", "U+10585", "U+10586", "U+10587", "U+10588", "U+10589", "U+1058A", "U+1058C",
      "U+1058D", "U+1058E", "U+1058F", "U+10590", "U+10591", "U+10592", "U+10594", "U+10595",
      "U+10C80", "U+10C81", "U+10C82", "U+10C83", "U+10C84", "U+10C85", "U+10C86", "U+10C87",
      "U+10C88", "U+10C89", "U+10C8A", "U+10C8B", "U+10C8C", "U+10C8D", "U+10C8E", "U+10C8F",
      "U+10C90", "U+10C91", "U+10C92", "U+10C93", "U+10C94", "U+10C95", "U+10C96", "U+10C97",
      "U+10C98", "U+10C99", "U+10C9A", "U+10C9B", "U+10C9C", "U+10C9D", "U+10C9E", "U+10C9F",
      "U+10CA0", "U+10CA1", "U+10CA2", "U+10CA3", "U+10CA4", "U+10CA5", "U+10CA6", "U+10CA7",
      "U+10CA8", "U+10CA9", "U+10CAA", "U+10CAB", "U+10CAC", "U+10CAD", "U+10CAE", "U+10CAF",
      "U+10CB0", "U+10CB1", "U+10CB2", "U+118A0", "U+118A1", "U+118A2", "U+118A3", "U+118A4",
      "U+118A5", "U+118A6", "U+118A7", "U+118A8", "U+118A9", "U+118AA", "U+118AB", "U+118AC",
      "U+118AD", "U+118AE", "U+118AF", "U+118B0", "U+118B1", "U+118B2", "U+118B3", "U+118B4",
      "U+118B5", "U+118B6", "U+118B7", "U+118B8", "U+118B9", "U+118BA", "U+118BB", "U+118BC",
      "U+118BD", "U+118BE", "U+118BF", "U+16E40", "U+16E41", "U+16E42", "U+16E43", "U+16E44",
      "U+16E45", "U+16E46", "U+16E47", "U+16E48", "U+16E49", "U+16E4A", "U+16E4B", "U+16E4C",
      "U+16E4D", "U+16E4E", "U+16E4F", "U+16E50", "U+16E51", "U+16E52", "U+16E53", "U+16E54",
      "U+16E55", "U+16E56", "U+16E57", "U+16E58", "U+16E59", "U+16E5A", "U+16E5B", "U+16E5C",
      "U+16E5D", "U+16E5E", "U+16E5F", "U+1E900", "U+1E901", "U+1E902", "U+1E903", "U+1E904",
      "U+1E905", "U+1E906", "U+1E907", "U+1E908", "U+1E909", "U+1E90A", "U+1E90B", "U+1E90C",
      "U+1E90D", "U+1E90E", "U+1E90F", "U+1E910", "U+1E911", "U+1E912", "U+1E913", "U+1E914",
      "U+1E915", "U+1E916", "U+1E917", "U+1E918", "U+1E919", "U+1E91A", "U+1E91B", "U+1E91C",
      "U+1E91D", "U+1E91E", "U+1E91F", "U+1E920", "U+1E921">>

\* ... and the first character of what it makes of each, taken alone (the
\* only one but for U+0130, which becomes i and U+0307).
LowerCharacters ==
    <<"a", "b", "c", "d", "e", "f", "g", "h", "i", "j", "k", "l", "m", "n", "o", "p", "q", "r",
      "s", "t", "u", "v", "w", "x", "y", "z", "à", "á", "â", "ã", "ä", "å", "æ", "ç", "è", "é",
      "ê", "ë", "ì", "í", "î", "ï", "ð", "ñ", "ò", "ó", "ô", "õ", "ö", "ø", "ù", "ú", "û", "ü",
      "ý", "þ", "U+0101", "U+0103", "U+0105", "U+0107", "U+0109", "U+010B", "U+010D", "U+010F",
      "U+0111", "U+0113", "U+0115", "U+0117", "U+0119", "U+011B", "U+011D", "U+011F", "U+0121",
      "U+0123", "U+0125", "U+0127", "U+0129", "U+012B", "U+012D", "U+012F", "i", "U+0133",
      "U+0135", "U+0137", "U+013A", "U+013C", "U+013E", "U+0140", "U+0142", "U+0144", "U+0146",
      "U+0148", "U+014B", "U+014D", "U+014F", "U+0151", "U+0153", "U+0155", "U+0157", "U+0159",
      "U+015B", "U+015D", "U+015F", "U+0161", "U+0163", "U+0165", "U+0167", "U+0169", "U+016B",
      "U+016D", "U+016F", "U+0171", "U+0173", "U+0175", "U+0177", "ÿ", "U+017A", "U+017C",
      "U+017E", "U+0253", "ƃ", "ƅ", "U+0254", "ƈ", "U+0256", "U+0257", "ƌ", "ǝ", "U+0259",
      "U+025B", "ƒ", "U+0260", "U+0263", "U+0269", "U+0268", "ƙ", "U+026F", "U+0272", "U+0275",
      "ơ", "ƣ", "ƥ", "ʀ", "ƨ", "ʃ", "ƭ", "ʈ", "ư", "ʊ", "ʋ", "ƴ", "ƶ", "ʒ", "ƹ", "ƽ", "ǆ", "ǆ",
      "ǉ", "ǉ", "ǌ", "ǌ", "ǎ", "ǐ", "ǒ", "ǔ", "ǖ", "ǘ", "ǚ", "ǜ", "ǟ", "ǡ", "ǣ", "ǥ", "ǧ", "ǩ",
      "ǫ", "ǭ", "ǯ", "ǳ", "ǳ", "ǵ", "ƕ", "ƿ", "ǹ", "ǻ", "ǽ", "ǿ", "U+0201", "U+0203", "U+0205",
      "U+0207", "U+0209", "U+020B", "U+020D", "U+020F", "U+0211", "U+0213", "U+0215", "U+0217",
      "U+0219", "U+021B", "U+021D", "U+021F", "ƞ", "U+0223", "U+0225", "U+0227", "U+0229",
      "U+022B", "U+022D", "U+022F", "U+0231", "U+0233", "U+2C65", "U+023C", "ƚ", "U+2C66",
      "U+0242", "ƀ", "ʉ", "ʌ", "U+0247", "U+0249", "U+024B", "U+024D", "U+024F", "U+0371",
      "U+0373", "U+0377", "ϳ", "ά", "έ", "ή", "ί", "ό", "ύ", "ώ", "α", "β", "γ", "δ", "ε", "ζ",
      "η", "θ", "ι", "κ", "λ", "μ", "ν", "ξ", "ο", "π", "ρ", "σ", "τ", "υ", "φ", "χ", "ψ", "ω",
      "ϊ", "ϋ", "ϗ", "ϙ", "ϛ", "ϝ", "ϟ", "ϡ", "ϣ", "ϥ", "ϧ", "ϩ", "ϫ", "ϭ", "ϯ", "θ", "ϸ", "ϲ",
      "ϻ", "U+037B", "U+037C", "U+037D", "U+0450", "U+0451", "U+0452", "U+0453", "U+0454",
      "U+0455", "U+0456", "U+0457", "U+0458", "U+0459", "U+045A", "U+045B", "U+045C", "U+045D",
      "U+045E", "U+045F", "U+0430", "U+0431", "U+0432", "U+0433", "U+0434", "U+0435", "U+0436",
      "U+0437", "U+0438", "U+0439", "U+043A", "U+043B", "U+043C", "U+043D", "U+043E", "U+043F",
      "U+0440", "U+0441", "U+0442", "U+0443", "U+0444", "U+0445", "U+0446", "U+0447", "U+0448",
      "U+0449", "U+044A", "U+044B", "U+044C", "U+044D", "U+044E", "U+044F", "U+0461", "U+0463",
      "U+0465", "U+0467", "U+0469", "U+046B", "U+046D", "U+046F", "U+0471", "U+0473", "U+0475",
      "U+0477", "U+0479", "U+047B", "U+047D", "U+047F", "ҁ", "ҋ", "ҍ", "ҏ", "ґ", "ғ", "ҕ", "җ",
      "ҙ", "қ", "ҝ", "ҟ", "ҡ", "ң", "ҥ", "ҧ", "ҩ", "ҫ", "ҭ", "ү", "ұ", "ҳ", "ҵ", "ҷ", "ҹ", "һ",
      "ҽ", "ҿ", "ӏ", "ӂ", "ӄ", "ӆ", "ӈ", "ӊ", "ӌ", "ӎ", "ӑ", "ӓ", "ӕ", "ӗ", "ә", "ӛ", "ӝ", "ӟ",
      "ӡ", "ӣ", "ӥ", "ӧ", "ө", "ӫ", "ӭ", "ӯ", "ӱ", "ӳ", "ӵ", "ӷ", "ӹ", "ӻ", "ӽ", "ӿ", "U+0501",
      "U+0503", "U+0505", "U+0507", "U+0509", "U+050B", "U+050D", "U+050F", "U+0511", "U+0513",
      "U+0515", "U+0517", "U+0519", "U+051B", "U+051D", "U+051F", "U+0521", "U+0523", "U+0525",
      "U+0527", "U+0529", "U+052B", "U+052D", "U+052F", "U+0561", "U+0562", "U+0563", "U+0564",
      "U+0565", "U+0566", "U+0567", "U+0568", "U+0569", "U+056A", "U+056B", "U+056C", "U+056D",
      "U+056E", "U+056F", "U+0570", "U+0571", "U+0572", "U+0573", "U+0574", "U+0575", "U+0576",
      "U+0577", "U+0578", "U+0579", "U+057A", "U+057B", "U+057C", "U+057D", "U+057E", "U+057F",
      "ր", "ց", "ւ", "փ", "ք", "օ", "ֆ", "U+2D00", "U+2D01", "U+2D02", "U+2D03", "U+2D04",
      "U+2D05", "U+2D06", "U+2D07", "U+2D08", "U+2D09", "U+2D0A", "U+2D0B", "U+2D0C", "U+2D0D",
      "U+2D0E", "U+2D0F", "U+2D10", "U+2D11", "U+2D12", "U+2D13", "U+2D14", "U+2D15", "U+2D16",
      "U+2D17", "U+2D18", "U+2D19", "U+2D1A", "U+2D1B", "U+2D1C", "U+2D1D", "U+2D1E", "U+2D1F",
      "U+2D20", "U+2D21", "U+2D22", "U+2D23", "U+2D24", "U+2D25", "U+2D27", "U+2D2D", "U+AB70",
      "U+AB71", "U+AB72", "U+AB73", "U+AB74", "U+AB75", "U+AB76", "U+AB77", "U+AB78", "U+AB79",
      "U+AB7A", "U+AB7B", "U+AB7C", "U+AB7D", "U+AB7E", "U+AB7F", "ꮀ", "ꮁ", "ꮂ", "ꮃ", "ꮄ", "ꮅ",
      "ꮆ", "ꮇ", "ꮈ", "ꮉ", "ꮊ", "ꮋ", "ꮌ", "ꮍ", "ꮎ", "ꮏ", "ꮐ", "ꮑ", "ꮒ", "ꮓ", "ꮔ", "ꮕ", "ꮖ", "ꮗ",
      "ꮘ", "ꮙ", "ꮚ", "ꮛ", "ꮜ", "ꮝ", "ꮞ", "ꮟ", "ꮠ", "ꮡ", "ꮢ", "ꮣ", "ꮤ", "ꮥ", "ꮦ", "ꮧ", "ꮨ", "ꮩ",
      "ꮪ", "ꮫ", "ꮬ", "ꮭ", "ꮮ", "ꮯ", "ꮰ", "ꮱ", "ꮲ", "ꮳ", "ꮴ", "ꮵ", "ꮶ", "ꮷ", "ꮸ", "ꮹ", "ꮺ", "ꮻ",
      "ꮼ", "ꮽ", "ꮾ", "ꮿ", "ᏸ", "ᏹ", "ᏺ", "ᏻ", "ᏼ", "ᏽ", "ა", "ბ", "გ", "დ", "ე", "ვ", "ზ", "თ",
      "ი", "კ", "ლ", "მ", "ნ", "ო", "პ", "ჟ", "რ", "ს", "ტ", "უ", "ფ", "ქ", "ღ", "ყ", "შ", "ჩ",
      "ც", "ძ", "წ", "ჭ", "ხ", "ჯ", "ჰ", "ჱ", "ჲ", "ჳ", "ჴ", "ჵ", "ჶ", "ჷ", "ჸ", "ჹ", "ჺ", "ჽ",
      "ჾ", "ჿ", "U+1E01", "U+1E03", "U+1E05", "U+1E07", "U+1E09", "U+1E0B", "U+1E0D", "U+1E0F",
      "U+1E11", "U+1E13", "U+1E15", "U+1E17", "U+1E19", "U+1E1B", "U+1E1D", "U+1E1F", "U+1E21",
      "U+1E23", "U+1E25", "U+1E27", "U+1E29", "U+1E2B", "U+1E2D", "U+1E2F", "U+1E31", "U+1E33",
      "U+1E35", "U+1E37", "U+1E39", "U+1E3B", "U+1E3D", "U+1E3F", "U+1E41", "U+1E43", "U+1E45",
      "U+1E47", "U+1E49", "U+1E4B", "U+1E4D", "U+1E4F", "U+1E51", "U+1E53", "U+1E55", "U+1E57",
      "U+1E59", "U+1E5B", "U+1E5D", "U+1E5F", "U+1E61", "U+1E63", "U+1E65", "U+1E67", "U+1E69",
      "U+1E6B", "U+1E6D", "U+1E6F", "U+1E71", "U+1E73", "U+1E75", "U+1E77", "U+1E79", "U+1E7B",
      "U+1E7D", "U+1E7F", "ẁ", "ẃ", "ẅ", "ẇ", "ẉ", "ẋ", "ẍ", "ẏ", "ẑ", "ẓ", "ẕ", "ß", "ạ", "ả",
      "ấ", "ầ", "ẩ", "ẫ", "ậ", "ắ", "ằ", "ẳ", "ẵ", "ặ", "ẹ", "ẻ", "ẽ", "ế", "ề", "ể", "ễ", "ệ",
      "ỉ", "ị", "ọ", "ỏ", "ố", "ồ", "ổ", "ỗ", "ộ", "ớ", "ờ", "ở", "ỡ", "ợ", "ụ", "ủ", "ứ", "ừ",
      "ử", "ữ", "ự", "ỳ", "ỵ", "ỷ", "ỹ", "ỻ", "ỽ", "ỿ", "U+1F00", "U+1F01", "U+1F02", "U+1F03",
      "U+1F04", "U+1F05", "U+1F06", "U+1F07", "U+1F10", "U+1F11", "U+1F12", "U+1F13", "U+1F14",
      "U+1F15", "U+1F20", "U+1F21", "U+1F22", "U+1F23", "U+1F24", "U+1F25", "U+1F26", "U+1F27",
      "U+1F30", "U+1F31", "U+1F32", "U+1F33", "U+1F34", "U+1F35", "U+1F36", "U+1F37", "U+1F40",
      "U+1F41", "U+1F42", "U+1F43", "U+1F44", "U+1F45", "U+1F51", "U+1F53", "U+1F55", "U+1F57",
      "U+1F60", "U+1F61", "U+1F62", "U+1F63", "U+1F64", "U+1F65", "U+1F66", "U+1F67", "ᾀ", "ᾁ",
      "ᾂ", "ᾃ", "ᾄ", "ᾅ", "ᾆ", "ᾇ", "ᾐ", "ᾑ", "ᾒ", "ᾓ", "ᾔ", "ᾕ", "ᾖ", "ᾗ", "ᾠ", "ᾡ", "ᾢ", "ᾣ",
      "ᾤ", "ᾥ", "ᾦ", "ᾧ", "ᾰ", "ᾱ", "U+1F70", "U+1F71", "ᾳ", "U+1F72", "U+1F73", "U+1F74",
      "U+1F75", "ῃ", "ῐ", "ῑ", "U+1F76", "U+1F77", "ῠ", "ῡ", "U+1F7A", "U+1F7B", "ῥ", "U+1F78",
      "U+1F79", "U+1F7C", "U+1F7D", "ῳ", "ω", "k", "å", "U+214E", "U+2170", "U+2171", "U+2172",
      "U+2173", "U+2174", "U+2175", "U+2176", "U+2177", "U+2178", "U+2179", "U+217A", "U+217B",
      "U+217C", "U+217D", "U+217E", "U+217F", "ↄ", "ⓐ", "ⓑ", "ⓒ", "ⓓ", "ⓔ", "ⓕ", "ⓖ", "ⓗ", "ⓘ",
      "ⓙ", "ⓚ", "ⓛ", "ⓜ", "ⓝ", "ⓞ", "ⓟ", "ⓠ", "ⓡ", "ⓢ", "ⓣ", "ⓤ", "ⓥ", "ⓦ", "ⓧ", "ⓨ", "ⓩ",
      "U+2C30", "U+2C31", "U+2C32", "U+2C33", "U+2C34", "U+2C35", "U+2C36", "U+2C37", "U+2C38",
      "U+2C39", "U+2C3A", "U+2C3B", "U+2C3C", "U+2C3D", "U+2C3E", "U+2C3F", "U+2C40", "U+2C41",
      "U+2C42", "U+2C43", "U+2C44", "U+2C45", "U+2C46", "U+2C47", "U+2C48", "U+2C49", "U+2C4A",
      "U+2C4B", "U+2C4C", "U+2C4D", "U+2C4E", "U+2C4F", "U+2C50", "U+2C51", "U+2C52", "U+2C53",
      "U+2C54", "U+2C55", "U+2C56", "U+2C57", "U+2C58", "U+2C59", "U+2C5A", "U+2C5B", "U+2C5C",
      "U+2C5D", "U+2C5E", "U+2C5F", "U+2C61", "U+026B", "U+1D7D", "U+027D", "U+2C68", "U+2C6A",
      "U+2C6C", "U+0251", "U+0271", "U+0250", "U+0252", "U+2C73", "U+2C76", "U+023F", "U+0240",
      "ⲁ", "ⲃ", "ⲅ", "ⲇ", "ⲉ", "ⲋ", "ⲍ", "ⲏ", "ⲑ", "ⲓ", "ⲕ", "ⲗ", "ⲙ", "ⲛ", "ⲝ", "ⲟ", "ⲡ", "ⲣ",
      "ⲥ", "ⲧ", "ⲩ", "ⲫ", "ⲭ", "ⲯ", "ⲱ", "ⲳ", "ⲵ", "ⲷ", "ⲹ", "ⲻ", "ⲽ", "ⲿ", "ⳁ", "ⳃ", "ⳅ", "ⳇ",
      "ⳉ", "ⳋ", "ⳍ", "ⳏ", "ⳑ", "ⳓ", "ⳕ", "ⳗ", "ⳙ", "ⳛ", "ⳝ", "ⳟ", "ⳡ", "ⳣ", "ⳬ", "ⳮ", "ⳳ",
      "U+A641", "U+A643", "U+A645", "U+A647", "U+A649", "U+A64B", "U+A64D", "U+A64F", "U+A651",
      "U+A653", "U+A655", "U+A657", "U+A659", "U+A65B", "U+A65D", "U+A65F", "U+A661", "U+A663",
      "U+A665", "U+A667", "U+A669", "U+A66B", "U+A66D", "ꚁ", "ꚃ", "ꚅ", "ꚇ", "ꚉ", "ꚋ", "ꚍ", "ꚏ",
      "ꚑ", "ꚓ", "ꚕ", "ꚗ", "ꚙ", "ꚛ", "U+A723", "U+A725", "U+A727", "U+A729", "U+A72B", "U+A72D",
      "U+A72F", "U+A733", "U+A735", "U+A737", "U+A739", "U+A73B", "U+A73D", "U+A73F", "U+A741",
      "U+A743", "U+A745", "U+A747", "U+A749", "U+A74B", "U+A74D", "U+A74F", "U+A751", "U+A753",
      "U+A755", "U+A757", "U+A759", "U+A75B", "U+A75D", "U+A75F", "U+A761", "U+A763", "U+A765",
      "U+A767", "U+A769", "U+A76B", "U+A76D", "U+A76F", "U+A77A", "U+A77C", "U+1D79", "U+A77F",
      "ꞁ", "ꞃ", "ꞅ", "ꞇ", "ꞌ", "U+0265", "ꞑ", "ꞓ", "ꞗ", "ꞙ", "ꞛ", "ꞝ", "ꞟ", "ꞡ", "ꞣ", "ꞥ", "ꞧ",
      "ꞩ", "U+0266", "U+025C", "U+0261", "U+026C", "U+026A", "ʞ", "ʇ", "ʝ", "U+AB53", "ꞵ", "ꞷ",
      "ꞹ", "ꞻ", "ꞽ", "ꞿ", "ꟁ", "ꟃ", "ꞔ", "ʂ", "ᶎ", "ꟈ", "ꟊ", "ꟑ", "ꟗ", "ꟙ", "ꟶ", "U+FF41",
      "U+FF42", "U+FF43", "U+FF44", "U+FF45", "U+FF46", "U+FF47", "U+FF48", "U+FF49", "U+FF4A",
      "U+FF4B", "U+FF4C", "U+FF4D", "U+FF4E", "U+FF4F", "U+FF50", "U+FF51", "U+FF52", "U+FF53",
      "U+FF54", "U+FF55", "U+FF56", "U+FF57", "U+FF58", "U+FF59", "U+FF5A", "U+10428",
      "U+10429", "U+1042A", "U+1042B", "U+1042C", "U+1042D", "U+1042E", "U+1042F", "U+10430",
      "U+10431", "U+10432", "U+10433", "U+10434", "U+10435", "U+10436", "U+10437", "U+10438",
      "U+10439", "U+1043A", "U+1043B", "U+1043C", "U+1043D", "U+1043E", "U+1043F", "U+10440",
      "U+10441", "U+10442", "U+10443", "U+10444", "U+10445", "U+10446", "U+10447", "U+10448",
      "U+10449", "U+1044A", "U+1044B", "U+1044C", "U+1044D", "U+1044E", "U+1044F", "U+104D8",
      "U+104D9", "U+104DA", "U+104DB", "U+104DC", "U+104DD", "U+104DE", "U+104DF", "U+104E0",
      "U+104E1", "U+104E2", "U+104E3", "U+104E4", "U+104E5", "U+104E6", "U+104E7", "U+104E8",
      "U+104E9", "U+104EA", "U+104EB", "U+104EC", "U+104ED", "U+104EE", "U+104EF", "U+104F0",
      "U+104F1", "U+104F2", "U+104F3", "U+104F4", "U+104F5", "U+104F6", "U+104F7", "U+104F8",
      "U+104F9", "U+104FA", "U+104FB", "U+10597", "U+10598", "U+10599", "U+1059A", "U+1059B",
      "U+1059C", "U+1059D", "U+1059E", "U+1059F", "U+105A0", "U+105A1", "U+105A3", "U+105A4",
      "U+105A5", "U+105A6", "U+105A7", "U+105A8", "U+105A9", "U+105AA", "U+105AB", "U+105AC",
      "U+105AD", "U+105AE", "U+105AF", "U+105B0", "U+105B1", "U+105B3", "U+105B4", "U+105B5",
      "U+105B6", "U+105B7", "U+105B8", "U+105B9", "U+105BB", "U+105BC", "U+10CC0", "U+10CC1",
      "U+10CC2", "U+10CC3", "U+10CC4", "U+10CC5", "U+10CC6", "U+10CC7", "U+10CC8", "U+10CC9",
      "U+10CCA", "U+10CCB", "U+10CCC", "U+10CCD", "U+10CCE", "U+10CCF", "U+10CD0", "U+10CD1",
      "U+10CD2", "U+10CD3", "U+10CD4", "U+10CD5", "U+10CD6", "U+10CD7", "U+10CD8", "U+10CD9",
      "U+10CDA", "U+10CDB", "U+10CDC", "U+10CDD", "U+10CDE", "U+10CDF", "U+10CE0", "U+10CE1",
      "U+10CE2", "U+10CE3", "U+10CE4", "U+10CE5", "U+10CE6", "U+10CE7", "U+10CE8", "U+10CE9",
      "U+10CEA", "U+10CEB", "U+10CEC", "U+10CED", "U+10CEE", "U+10CEF", "U+10CF0", "U+10CF1",
      "U+10CF2", "U+118C0", "U+118C1", "U+118C2", "U+118C3", "U+118C4", "U+118C5", "U+118C6",
      "U+118C7", "U+118C8", "U+118C9", "U+118CA", "U+118CB", "U+118CC", "U+118CD", "U+118CE",
      "U+118CF", "U+118D0", "U+118D1", "U+118D2", "U+118D3", "U+118D4", "U+118D5", "U+118D6",
      "U+118D7", "U+118D8", "U+118D9", "U+118DA", "U+118DB", "U+118DC", "U+118DD", "U+118DE",
      "U+118DF", "U+16E60", "U+16E61", "U+16E62", "U+16E63", "U+16E64", "U+16E65", "U+16E66",
      "U+16E67", "U+16E68", "U+16E69", "U+16E6A", "U+16E6B", "U+16E6C", "U+16E6D", "U+16E6E",
      "U+16E6F", "U+16E70", "U+16E71", "U+16E72", "U+16E73", "U+16E74", "U+16E75", "U+16E76",
      "U+16E77", "U+16E78", "U+16E79", "U+16E7A", "U+16E7B", "U+16E7C", "U+16E7D", "U+16E7E",
      "U+16E7F", "U+1E922", "U+1E923", "U+1E924", "U+1E925", "U+1E926", "U+1E927", "U+1E928",
      "U+1E929", "U+1E92A", "U+1E92B", "U+1E92C", "U+1E92D", "U+1E92E", "U+1E92F", "U+1E930",
      "U+1E931", "U+1E932", "U+1E933", "U+1E934", "U+1E935", "U+1E936", "U+1E937", "U+1E938",
      "U+1E939", "U+1E93A", "U+1E93B", "U+1E93C", "U+1E93D", "U+1E93E", "U+1E93F", "U+1E940",
      "U+1E941", "U+1E942", "U+1E943">>

\* The cased characters that are not case-ignorable (str.lower() looks for
\* them around a capital sigma).
CasedCharacters ==
    {"A", "B", "C", "D", "E", "F", "G", "H", "I", "J", "K", "L", "M", "N", "O", "P", "Q", "R",
     "S", "T", "U", "V", "W", "X", "Y", "Z", "a", "b", "c", "d", "e", "f", "g", "h", "i", "j",
     "k", "l", "m", "n", "o", "p", "q", "r", "s", "t", "u", "v", "w", "x", "y", "z", "ª", "µ",
     "º", "À", "Á", "Â", "Ã", "Ä", "Å", "Æ", "Ç", "È", "É", "Ê", "Ë", "Ì", "Í", "Î", "Ï", "Ð",
     "Ñ", "Ò", "Ó", "Ô", "Õ", "Ö", "Ø", "Ù", "Ú", "Û", "Ü", "Ý", "Þ", "ß", "à", "á", "â", "ã",
     "ä", "å", "æ", "ç", "è", "é", "ê", "ë", "ì", "í", "î", "ï", "ð", "ñ", "ò", "ó", "ô", "õ",
     "ö", "ø", "ù", "ú", "û", "ü", "ý", "þ", "ÿ", "U+0100", "U+0101", "U+0102", "U+0103",
     "U+0104", "U+0105", "U+0106", "U+0107", "U+0108", "U+0109", "U+010A", "U+010B", "U+010C",
     "U+010D", "U+010E", "U+010F", "U+0110", "U+0111", "U+0112", "U+0113", "U+0114", "U+0115",
     "U+0116", "U+0117", "U+0118", "U+0119", "U+011A", "U+011B", "U+011C", "U+011D", "U+011E",
     "U+011F", "U+0120", "U+0121", "U+0122", "U+0123", "U+0124", "U+0125", "U+0126", "U+0127",
     "U+0128", "U+0129", "U+012A", "U+012B", "U+012C", "U+012D", "U+012E", "U+012F", "U+0130",
     "U+0131", "U+0132", "U+0133", "U+0134", "U+0135", "U+0136", "U+0137", "U+0138", "U+0139",
     "U+013A", "U+013B", "U+013C", "U+013D", "U+013E", "U+013F", "U+0140", "U+0141", "U+0142",
     "U+0143", "U+0144", "U+0145", "U+0146", "U+0147", "U+0148", "U+0149", "U+014A", "U+014B",
     "U+014C", "U+014D", "U+014E", "U+014F", "U+0150", "U+0151", "U+0152", "U+0153", "U+0154",
     "U+0155", "U+0156", "U+0157", "U+0158", "U+0159", "U+015A", "U+015B", "U+015C", "U+015D",
     "U+015E", "U+015F", "U+0160", "U+0161", "U+0162", "U+0163", "U+0164", "U+0165", "U+0166",
     "U+0167", "U+0168", "U+0169", "U+016A", "U+016B", "U+016C", "U+016D", "U+016E", "U+016F",
     "U+0170", "U+0171", "U+0172", "U+0173", "U+0174", "U+0175", "U+0176", "U+0177", "U+0178",
     "U+0179", "U+017A", "U+017B", "U+017C", "U+017D", "U+017E", "U+017F", "ƀ", "Ɓ", "Ƃ", "ƃ",
     "Ƅ", "ƅ", "Ɔ", "Ƈ", "ƈ", "Ɖ", "Ɗ", "Ƌ", "ƌ", "ƍ", "Ǝ", "Ə", "Ɛ", "Ƒ", "ƒ", "Ɠ", "Ɣ", "ƕ",
     "Ɩ", "Ɨ", "Ƙ", "ƙ", "ƚ", "ƛ", "Ɯ", "Ɲ", "ƞ", "Ɵ", "Ơ", "ơ", "Ƣ", "ƣ", "Ƥ", "ƥ", "Ʀ", "Ƨ",
     "ƨ", "Ʃ", "ƪ", "ƫ", "Ƭ", "ƭ", "Ʈ", "Ư", "ư", "Ʊ", "Ʋ", "Ƴ", "ƴ", "Ƶ", "ƶ", "Ʒ", "Ƹ", "ƹ",
     "ƺ", "Ƽ", "ƽ", "ƾ", "ƿ", "Ǆ", "ǅ", "ǆ", "Ǉ", "ǈ", "ǉ", "Ǌ", "ǋ", "ǌ", "Ǎ", "ǎ", "Ǐ", "ǐ",
     "Ǒ", "ǒ", "Ǔ", "ǔ", "Ǖ", "ǖ", "Ǘ", "ǘ", "Ǚ", "ǚ", "Ǜ", "ǜ", "ǝ", "Ǟ", "ǟ", "Ǡ", "ǡ", "Ǣ",
     "ǣ", "Ǥ", "ǥ", "Ǧ", "ǧ", "Ǩ", "ǩ", "Ǫ", "ǫ", "Ǭ", "ǭ", "Ǯ", "ǯ", "ǰ", "Ǳ", "ǲ", "ǳ", "Ǵ",
     "ǵ", "Ƕ", "Ƿ", "Ǹ", "ǹ", "Ǻ", "ǻ", "Ǽ", "ǽ", "Ǿ", "ǿ", "U+0200", "U+0201", "U+0202",
     "U+0203", "U+0204", "U+0205", "U+0206", "U+0207", "U+0208", "U+0209", "U+020A", "U+020B",
     "U+020C", "U+020D", "U+020E", "U+020F", "U+0210", "U+0211", "U+0212", "U+0213", "U+0214",
     "U+0215", "U+0216", "U+0217", "U+0218", "U+0219", "U+021A", "U+021B", "U+021C", "U+021D",
     "U+021E", "U+021F", "U+0220", "U+0221", "U+0222", "U+0223", "U+0224", "U+0225", "U+0226",
     "U+0227", "U+0228", "U+0229", "U+022A", "U+022B", "U+022C", "U+022D", "U+022E", "U+022F",
     "U+0230", "U+0231", "U+0232", "U+0233", "U+0234", "U+0235", "U+0236", "U+0237", "U+0238",
     "U+0239", "U+023A", "U+023B", "U+023C", "U+023D", "U+023E", "U+023F", "U+0240", "U+0241",
     "U+0242", "U+0243", "U+0244", "U+0245", "U+0246", "U+0247", "U+0248", "U+0249", "U+024A",
     "U+024B", "U+024C", "U+024D", "U+024E", "U+024F", "U+0250", "U+0251", "U+0252", "U+0253",
     "U+0254", "U+0255", "U+0256", "U+0257", "U+0258", "U+0259", "U+025A", "U+025B", "U+025C",
     "U+025D", "U+025E", "U+025F", "U+0260", "U+0261", "U+0262", "U+0263", "U+0264", "U+0265",
     "U+0266", "U+0267", "U+0268", "U+0269", "U+026A", "U+026B", "U+026C", "U+026D", "U+026E",
     "U+026F", "U+0270", "U+0271", "U+0272", "U+0273", "U+0274", "U+0275", "U+0276", "U+0277",
     "U+0278", "U+0279", "U+027A", "U+027B", "U+027C", "U+027D", "U+027E", "U+027F", "ʀ", "ʁ",
     "ʂ", "ʃ", "ʄ", "ʅ", "ʆ", "ʇ", "ʈ", "ʉ", "ʊ", "ʋ", "ʌ", "ʍ", "ʎ", "ʏ", "ʐ", "ʑ", "ʒ", "ʓ",
     "ʕ", "ʖ", "ʗ", "ʘ", "ʙ", "ʚ", "ʛ", "ʜ", "ʝ", "ʞ", "ʟ", "ʠ", "ʡ", "ʢ", "ʣ", "ʤ", "ʥ", "ʦ",
     "ʧ", "ʨ", "ʩ", "ʪ", "ʫ", "ʬ", "ʭ", "ʮ", "ʯ", "U+0370", "U+0371", "U+0372", "U+0373",
     "U+0376", "U+0377", "U+037B", "U+037C", "U+037D", "U+037F", "Ά", "Έ", "Ή", "Ί", "Ό", "Ύ",
     "Ώ", "ΐ", "Α", "Β", "Γ", "Δ", "Ε", "Ζ", "Η", "Θ", "Ι", "Κ", "Λ", "Μ", "Ν", "Ξ", "Ο", "Π",
     "Ρ", "Σ", "Τ", "Υ", "Φ", "Χ", "Ψ", "Ω", "Ϊ", "Ϋ", "ά", "έ", "ή", "ί", "ΰ", "α", "β", "γ",
     "δ", "ε", "ζ", "η", "θ", "ι", "κ", "λ", "μ", "ν", "ξ", "ο", "π", "ρ", "ς", "σ", "τ", "υ",
     "φ", "χ", "ψ", "ω", "ϊ", "ϋ", "ό", "ύ", "ώ", "Ϗ", "ϐ", "ϑ", "ϒ", "ϓ", "ϔ", "ϕ", "ϖ", "ϗ",
     "Ϙ", "ϙ", "Ϛ", "ϛ", "Ϝ", "ϝ", "Ϟ", "ϟ", "Ϡ", "ϡ", "Ϣ", "ϣ", "Ϥ", "ϥ", "Ϧ", "ϧ", "Ϩ", "ϩ",
     "Ϫ", "ϫ", "Ϭ", "ϭ", "Ϯ", "ϯ", "ϰ", "ϱ", "ϲ", "ϳ", "ϴ", "ϵ", "Ϸ", "ϸ", "Ϲ", "Ϻ", "ϻ", "ϼ",
     "Ͻ", "Ͼ", "Ͽ", "U+0400", "U+0401", "U+0402", "U+0403", "U+0404", "U+0405", "U+0406",
     "U+0407", "U+0408", "U+0409", "U+040A", "U+040B", "U+040C", "U+040D", "U+040E", "U+040F",
     "U+0410", "U+0411", "U+0412", "U+0413", "U+0414", "U+0415", "U+0416", "U+0417", "U+0418",
     "U+0419", "U+041A", "U+041B", "U+041C", "U+041D", "U+041E", "U+041F", "U+0420", "U+0421",
     "U+0422", "U+0423", "U+0424", "U+0425", "U+0426", "U+0427", "U+0428", "U+0429", "U+042A",
     "U+042B", "U+042C", "U+042D", "U+042E", "U+042F", "U+0430", "U+0431", "U+0432", "U+0433",
     "U+0434", "U+0435", "U+0436", "U+0437", "U+0438", "U+0439", "U+043A", "U+043B", "U+043C",
     "U+043D", "U+043E", "U+043F", "U+0440", "U+0441", "U+0442", "U+0443", "U+0444", "U+0445",
     "U+0446", "U+0447", "U+0448", "U+0449", "U+044A", "U+044B", "U+044C", "U+044D", "U+044E",
     "U+044F", "U+0450", "U+0451", "U+0452", "U+0453", "U+0454", "U+0455", "U+0456", "U+0457",
     "U+0458", "U+0459", "U+045A", "U+045B", "U+045C", "U+045D", "U+045E", "U+045F", "U+0460",
     "U+0461", "U+0462", "U+0463", "U+0464", "U+0465", "U+0466", "U+0467", "U+0468", "U+0469",
     "U+046A", "U+046B", "U+046C", "U+046D", "U+046E", "U+046F", "U+0470", "U+0471", "U+0472",
     "U+0473", "U+0474", "U+0475", "U+0476", "U+0477", "U+0478", "U+0479", "U+047A", "U+047B",
     "U+047C", "U+047D", "U+047E", "U+047F", "Ҁ", "ҁ", "Ҋ", "ҋ", "Ҍ", "ҍ", "Ҏ", "ҏ", "Ґ", "ґ",
     "Ғ", "ғ", "Ҕ", "ҕ", "Җ", "җ", "Ҙ", "ҙ", "Қ", "қ", "Ҝ", "ҝ", "Ҟ", "ҟ", "Ҡ", "ҡ", "Ң", "ң",
     "Ҥ", "ҥ", "Ҧ", "ҧ", "Ҩ", "ҩ", "Ҫ", "ҫ", "Ҭ", "ҭ", "Ү", "ү", "Ұ", "ұ", "Ҳ", "ҳ", "Ҵ", "ҵ",
     "Ҷ", "ҷ", "Ҹ", "ҹ", "Һ", "һ", "Ҽ", "ҽ", "Ҿ", "ҿ", "Ӏ", "Ӂ", "ӂ", "Ӄ", "ӄ", "Ӆ", "ӆ", "Ӈ",
     "ӈ", "Ӊ", "ӊ", "Ӌ", "ӌ", "Ӎ", "ӎ", "ӏ", "Ӑ", "ӑ", "Ӓ", "ӓ", "Ӕ", "ӕ", "Ӗ", "ӗ", "Ә", "ә",
     "Ӛ", "ӛ", "Ӝ", "ӝ", "Ӟ", "ӟ", "Ӡ", "ӡ", "Ӣ", "ӣ", "Ӥ", "ӥ", "Ӧ", "ӧ", "Ө", "ө", "Ӫ", "ӫ",
     "Ӭ", "ӭ", "Ӯ", "ӯ", "Ӱ", "ӱ", "Ӳ", "ӳ", "Ӵ", "ӵ", "Ӷ", "ӷ", "Ӹ", "ӹ", "Ӻ", "ӻ", "Ӽ", "ӽ",
     "Ӿ", "ӿ", "U+0500", "U+0501", "U+0502", "U+0503", "U+0504", "U+0505", "U+0506", "U+0507",
     "U+0508", "U+0509", "U+050A", "U+050B", "U+050C", "U+050D", "U+050E", "U+050F", "U+0510",
     "U+0511", "U+0512", "U+0513", "U+0514", "U+0515", "U+0516", "U+0517", "U+0518", "U+0519",
     "U+051A", "U+051B", "U+051C", "U+051D", "U+051E", "U+051F", "U+0520", "U+0521", "U+0522",
     "U+0523", "U+0524", "U+0525", "U+0526", "U+0527", "U+0528", "U+0529", "U+052A", "U+052B",
     "U+052C", "U+052D", "U+052E", "U+052F", "U+0531", "U+0532", "U+0533", "U+0534", "U+0535",
     "U+0536", "U+0537", "U+0538", "U+0539", "U+053A", "U+053B", "U+053C", "U+053D", "U+053E",
     "U+053F", "U+0540", "U+0541", "U+0542", "U+0543", "U+0544", "U+0545", "U+0546", "U+0547",
     "U+0548", "U+0549", "U+054A", "U+054B", "U+054C", "U+054D", "U+054E", "U+054F", "U+0550",
     "U+0551", "U+0552", "U+0553", "U+0554", "U+0555", "U+0556", "U+0560", "U+0561", "U+0562",
     "U+0563", "U+0564", "U+0565", "U+0566", "U+0567", "U+0568", "U+0569", "U+056A", "U+056B",
     "U+056C", "U+056D", "U+056E", "U+056F", "U+0570", "U+0571", "U+0572", "U+0573", "U+0574",
     "U+0575", "U+0576", "U+0577", "U+0578", "U+0579", "U+057A", "U+057B", "U+057C", "U+057D",
     "U+057E", "U+057F", "ր", "ց", "ւ", "փ", "ք", "օ", "ֆ", "և", "ֈ", "Ⴀ", "Ⴁ", "Ⴂ", "Ⴃ", "Ⴄ",
     "Ⴅ", "Ⴆ", "Ⴇ", "Ⴈ", "Ⴉ", "Ⴊ", "Ⴋ", "Ⴌ", "Ⴍ", "Ⴎ", "Ⴏ", "Ⴐ", "Ⴑ", "Ⴒ", "Ⴓ", "Ⴔ", "Ⴕ", "Ⴖ",
     "Ⴗ", "Ⴘ", "Ⴙ", "Ⴚ", "Ⴛ", "Ⴜ", "Ⴝ", "Ⴞ", "Ⴟ", "Ⴠ", "Ⴡ", "Ⴢ", "Ⴣ", "Ⴤ", "Ⴥ", "Ⴧ", "Ⴭ", "ა",
     "ბ", "გ", "დ", "ე", "ვ", "ზ", "თ", "ი", "კ", "ლ", "მ", "ნ", "ო", "პ", "ჟ", "რ", "ს", "ტ",
     "უ", "ფ", "ქ", "ღ", "ყ", "შ", "ჩ", "ც", "ძ", "წ", "ჭ", "ხ", "ჯ", "ჰ", "ჱ", "ჲ", "ჳ", "ჴ",
     "ჵ", "ჶ", "ჷ", "ჸ", "ჹ", "ჺ", "ჽ", "ჾ", "ჿ", "Ꭰ", "Ꭱ", "Ꭲ", "Ꭳ", "Ꭴ", "Ꭵ", "Ꭶ", "Ꭷ", "Ꭸ",
     "Ꭹ", "Ꭺ", "Ꭻ", "Ꭼ", "Ꭽ", "Ꭾ", "Ꭿ", "Ꮀ", "Ꮁ", "Ꮂ", "Ꮃ", "Ꮄ", "Ꮅ", "Ꮆ", "Ꮇ", "Ꮈ", "Ꮉ", "Ꮊ",
     "Ꮋ", "Ꮌ", "Ꮍ", "Ꮎ", "Ꮏ", "Ꮐ", "Ꮑ", "Ꮒ", "Ꮓ", "Ꮔ", "Ꮕ", "Ꮖ", "Ꮗ", "Ꮘ", "Ꮙ", "Ꮚ", "Ꮛ", "Ꮜ",
     "Ꮝ", "Ꮞ", "Ꮟ", "Ꮠ", "Ꮡ", "Ꮢ", "Ꮣ", "Ꮤ", "Ꮥ", "Ꮦ", "Ꮧ", "Ꮨ", "Ꮩ", "Ꮪ", "Ꮫ", "Ꮬ", "Ꮭ", "Ꮮ",
     "Ꮯ", "Ꮰ", "Ꮱ", "Ꮲ", "Ꮳ", "Ꮴ", "Ꮵ", "Ꮶ", "Ꮷ", "Ꮸ", "Ꮹ", "Ꮺ", "Ꮻ", "Ꮼ", "Ꮽ", "Ꮾ", "Ꮿ", "Ᏸ",
     "Ᏹ", "Ᏺ", "Ᏻ", "Ᏼ", "Ᏽ", "ᏸ", "ᏹ", "ᏺ", "ᏻ", "ᏼ", "ᏽ", "ᲀ", "ᲁ", "ᲂ", "ᲃ", "ᲄ", "ᲅ", "ᲆ",
     "ᲇ", "ᲈ", "Ა", "Ბ", "Გ", "Დ", "Ე", "Ვ", "Ზ", "Თ", "Ი", "Კ", "Ლ", "Მ", "Ნ", "Ო", "Პ", "Ჟ",
     "Რ", "Ს", "Ტ", "Უ", "Ფ", "Ქ", "Ღ", "Ყ", "Შ", "Ჩ", "Ც", "Ძ", "Წ", "Ჭ", "Ხ", "Ჯ", "Ჰ", "Ჱ",
     "Ჲ", "Ჳ", "Ჴ", "Ჵ", "Ჶ", "Ჷ", "Ჸ", "Ჹ", "Ჺ", "Ჽ", "Ჾ", "Ჿ", "U+1D00", "U+1D01", "U+1D02",
     "U+1D03", "U+1D04", "U+1D05", "U+1D06", "U+1D07", "U+1D08", "U+1D09", "U+1D0A", "U+1D0B",
     "U+1D0C", "U+1D0D", "U+1D0E", "U+1D0F", "U+1D10", "U+1D11", "U+1D12", "U+1D13", "U+1D14",
     "U+1D15", "U+1D16", "U+1D17", "U+1D18", "U+1D19", "U+1D1A", "U+1D1B", "U+1D1C", "U+1D1D",
     "U+1D1E", "U+1D1F", "U+1D20", "U+1D21", "U+1D22", "U+1D23", "U+1D24", "U+1D25", "U+1D26",
     "U+1D27", "U+1D28", "U+1D29", "U+1D2A", "U+1D2B", "U+1D6B", "U+1D6C", "U+1D6D", "U+1D6E",
     "U+1D6F", "U+1D70", "U+1D71", "U+1D72", "U+1D73", "U+1D74", "U+1D75", "U+1D76", "U+1D77",
     "U+1D79", "U+1D7A", "U+1D7B", "U+1D7C", "U+1D7D", "U+1D7E", "U+1D7F", "ᶀ", "ᶁ", "ᶂ", "ᶃ",
     "ᶄ", "ᶅ", "ᶆ", "ᶇ", "ᶈ", "ᶉ", "ᶊ", "ᶋ", "ᶌ", "ᶍ", "ᶎ", "ᶏ", "ᶐ", "ᶑ", "ᶒ", "ᶓ", "ᶔ", "ᶕ",
     "ᶖ", "ᶗ", "ᶘ", "ᶙ", "ᶚ", "U+1E00", "U+1E01", "U+1E02", "U+1E03", "U+1E04", "U+1E05",
     "U+1E06", "U+1E07", "U+1E08", "U+1E09", "U+1E0A", "U+1E0B", "U+1E0C", "U+1E0D", "U+1E0E",
     "U+1E0F", "U+1E10", "U+1E11", "U+1E12", "U+1E13", "U+1E14", "U+1E15", "U+1E16", "U+1E17",
     "U+1E18", "U+1E19", "U+1E1A", "U+1E1B", "U+1E1C", "U+1E1D", "U+1E1E", "U+1E1F", "U+1E20",
     "U+1E21", "U+1E22", "U+1E23", "U+1E24", "U+1E25", "U+1E26", "U+1E27", "U+1E28", "U+1E29",
     "U+1E2A", "U+1E2B", "U+1E2C", "U+1E2D", "U+1E2E", "U+1E2F", "U+1E30", "U+1E31", "U+1E32",
     "U+1E33", "U+1E34", "U+1E35", "U+1E36", "U+1E37", "U+1E38", "U+1E39", "U+1E3A", "U+1E3B",
     "U+1E3C", "U+1E3D", "U+1E3E", "U+1E3F", "U+1E40", "U+1E41", "U+1E42", "U+1E43", "U+1E44",
     "U+1E45", "U+1E46", "U+1E47", "U+1E48", "U+1E49", "U+1E4A", "U+1E4B", "U+1E4C", "U+1E4D",
     "U+1E4E", "U+1E4F", "U+1E50", "U+1E51", "U+1E52", "U+1E53", "U+1E54", "U+1E55", "U+1E56",
     "U+1E57", "U+1E58", "U+1E59", "U+1E5A", "U+1E5B", "U+1E5C", "U+1E5D", "U+1E5E", "U+1E5F",
     "U+1E60", "U+1E61", "U+1E62", "U+1E63", "U+1E64", "U+1E65", "U+1E66", "U+1E67", "U+1E68",
     "U+1E69", "U+1E6A", "U+1E6B", "U+1E6C", "U+1E6D", "U+1E6E", "U+1E6F", "U+1E70", "U+1E71",
     "U+1E72", "U+1E73", "U+1E74", "U+1E75", "U+1E76", "U+1E77", "U+1E78", "U+1E79", "U+1E7A",
     "U+1E7B", "U+1E7C", "U+1E7D", "U+1E7E", "U+1E7F", "Ẁ", "ẁ", "Ẃ", "ẃ", "Ẅ", "ẅ", "Ẇ", "ẇ",
     "Ẉ", "ẉ", "Ẋ", "ẋ", "Ẍ", "ẍ", "Ẏ", "ẏ", "Ẑ", "ẑ", "Ẓ", "ẓ", "Ẕ", "ẕ", "ẖ", "ẗ", "ẘ", "ẙ",
     "ẚ", "ẛ", "ẜ", "ẝ", "ẞ", "ẟ", "Ạ", "ạ", "Ả", "ả", "Ấ", "ấ", "Ầ", "ầ", "Ẩ", "ẩ", "Ẫ", "ẫ",
     "Ậ", "ậ", "Ắ", "ắ", "Ằ", "ằ", "Ẳ", "ẳ", "Ẵ", "ẵ", "Ặ", "ặ", "Ẹ", "ẹ", "Ẻ", "ẻ", "Ẽ", "ẽ",
     "Ế", "ế", "Ề", "ề", "Ể", "ể", "Ễ", "ễ", "Ệ", "ệ", "Ỉ", "ỉ", "Ị", "ị", "Ọ", "ọ", "Ỏ", "ỏ",
     "Ố", "ố", "Ồ", "ồ", "Ổ", "ổ", "Ỗ", "ỗ", "Ộ", "ộ", "Ớ", "ớ", "Ờ", "ờ", "Ở", "ở", "Ỡ", "ỡ",
     "Ợ", "ợ", "Ụ", "ụ", "Ủ", "ủ", "Ứ", "ứ", "Ừ", "ừ", "Ử", "ử", "Ữ", "ữ", "Ự", "ự", "Ỳ", "ỳ",
     "Ỵ", "ỵ", "Ỷ", "ỷ", "Ỹ", "ỹ", "Ỻ", "ỻ", "Ỽ", "ỽ", "Ỿ", "ỿ", "U+1F00", "U+1F01", "U+1F02",
     "U+1F03", "U+1F04", "U+1F05", "U+1F06", "U+1F07", "U+1F08", "U+1F09", "U+1F0A", "U+1F0B",
     "U+1F0C", "U+1F0D", "U+1F0E", "U+1F0F", "U+1F10", "U+1F11", "U+1F12", "U+1F13", "U+1F14",
     "U+1F15", "U+1F18", "U+1F19", "U+1F1A", "U+1F1B", "U+1F1C", "U+1F1D", "U+1F20", "U+1F21",
     "U+1F22", "U+1F23", "U+1F24", "U+1F25", "U+1F26", "U+1F27", "U+1F28", "U+1F29", "U+1F2A",
     "U+1F2B", "U+1F2C", "U+1F2D", "U+1F2E", "U+1F2F", "U+1F30", "U+1F31", "U+1F32", "U+1F33",
     "U+1F34", "U+1F35", "U+1F36", "U+1F37", "U+1F38", "U+1F39", "U+1F3A", "U+1F3B", "U+1F3C",
     "U+1F3D", "U+1F3E", "U+1F3F", "U+1F40", "U+1F41", "U+1F42", "U+1F43", "U+1F44", "U+1F45",
     "U+1F48", "U+1F49", "U+1F4A", "U+1F4B", "U+1F4C", "U+1F4D", "U+1F50", "U+1F51", "U+1F52",
     "U+1F53", "U+1F54", "U+1F55", "U+1F56", "U+1F57", "U+1F59", "U+1F5B", "U+1F5D", "U+1F5F",
     "U+1F60", "U+1F61", "U+1F62", "U+1F63", "U+1F64", "U+1F65", "U+1F66", "U+1F67", "U+1F68",
     "U+1F69", "U+1F6A", "U+1F6B", "U+1F6C", "U+1F6D", "U+1F6E", "U+1F6F", "U+1F70", "U+1F71",
     "U+1F72", "U+1F73", "U+1F74", "U+1F75", "U+1F76", "U+1F77", "U+1F78", "U+1F79", "U+1F7A",
     "U+1F7B", "U+1F7C", "U+1F7D", "ᾀ", "ᾁ", "ᾂ", "ᾃ", "ᾄ", "ᾅ", "ᾆ", "ᾇ", "ᾈ", "ᾉ", "ᾊ", "ᾋ",
     "ᾌ", "ᾍ", "ᾎ", "ᾏ", "ᾐ", "ᾑ", "ᾒ", "ᾓ", "ᾔ", "ᾕ", "ᾖ", "ᾗ", "ᾘ", "ᾙ", "ᾚ", "ᾛ", "ᾜ", "ᾝ",
     "ᾞ", "ᾟ", "ᾠ", "ᾡ", "ᾢ", "ᾣ", "ᾤ", "ᾥ", "ᾦ", "ᾧ", "ᾨ", "ᾩ", "ᾪ", "ᾫ", "ᾬ", "ᾭ", "ᾮ", "ᾯ",
     "ᾰ", "ᾱ", "ᾲ", "ᾳ", "ᾴ", "ᾶ", "ᾷ", "Ᾰ", "Ᾱ", "Ὰ", "Ά", "ᾼ", "ι", "ῂ", "ῃ", "ῄ", "ῆ", "ῇ",
     "Ὲ", "Έ", "Ὴ", "Ή", "ῌ", "ῐ", "ῑ", "ῒ", "ΐ", "ῖ", "ῗ", "Ῐ", "Ῑ", "Ὶ", "Ί", "ῠ", "ῡ", "ῢ",
     "ΰ", "ῤ", "ῥ", "ῦ", "ῧ", "Ῠ", "Ῡ", "Ὺ", "Ύ", "Ῥ", "ῲ", "ῳ", "ῴ", "ῶ", "ῷ", "Ὸ", "Ό", "Ὼ",
     "Ώ", "ῼ", "U+2102", "U+2107", "U+210A", "U+210B", "U+210C", "U+210D", "U+210E", "U+210F",
     "U+2110", "U+2111", "U+2112", "U+2113", "U+2115", "U+2119", "U+211A", "U+211B", "U+211C",
     "U+211D", "U+2124", "U+2126", "U+2128", "U+212A", "U+212B", "U+212C", "U+212D", "U+212F",
     "U+2130", "U+2131", "U+2132", "U+2133", "U+2134", "U+2139", "U+213C", "U+213D", "U+213E",
     "U+213F", "U+2145", "U+2146", "U+2147", "U+2148", "U+2149", "U+214E", "U+2160", "U+2161",
     "U+2162", "U+2163", "U+2164", "U+2165", "U+2166", "U+2167", "U+2168", "U+2169", "U+216A",
     "U+216B", "U+216C", "U+216D", "U+216E", "U+216F", "U+2170", "U+2171", "U+2172", "U+2173",
     "U+2174", "U+2175", "U+2176", "U+2177", "U+2178", "U+2179", "U+217A", "U+217B", "U+217C",
     "U+217D", "U+217E", "U+217F", "Ↄ", "ↄ", "Ⓐ", "Ⓑ", "Ⓒ", "Ⓓ", "Ⓔ", "Ⓕ", "Ⓖ", "Ⓗ", "Ⓘ", "Ⓙ",
     "Ⓚ", "Ⓛ", "Ⓜ", "Ⓝ", "Ⓞ", "Ⓟ", "Ⓠ", "Ⓡ", "Ⓢ", "Ⓣ", "Ⓤ", "Ⓥ", "Ⓦ", "Ⓧ", "Ⓨ", "Ⓩ", "ⓐ", "ⓑ",
     "ⓒ", "ⓓ", "ⓔ", "ⓕ", "ⓖ", "ⓗ", "ⓘ", "ⓙ", "ⓚ", "ⓛ", "ⓜ", "ⓝ", "ⓞ", "ⓟ", "ⓠ", "ⓡ", "ⓢ", "ⓣ",
     "ⓤ", "ⓥ", "ⓦ", "ⓧ", "ⓨ", "ⓩ", "U+2C00", "U+2C01", "U+2C02", "U+2C03", "U+2C04", "U+2C05",
     "U+2C06", "U+2C07", "U+2C08", "U+2C09", "U+2C0A", "U+2C0B", "U+2C0C", "U+2C0D", "U+2C0E",
     "U+2C0F", "U+2C10", "U+2C11", "U+2C12", "U+2C13", "U+2C14", "U+2C15", "U+2C16", "U+2C17",
     "U+2C18", "U+2C19", "U+2C1A", "U+2C1B", "U+2C1C", "U+2C1D", "U+2C1E", "U+2C1F", "U+2C20",
     "U+2C21", "U+2C22", "U+2C23", "U+2C24", "U+2C25", "U+2C26", "U+2C27", "U+2C28", "U+2C29",
     "U+2C2A", "U+2C2B", "U+2C2C", "U+2C2D", "U+2C2E", "U+2C2F", "U+2C30", "U+2C31", "U+2C32",
     "U+2C33", "U+2C34", "U+2C35", "U+2C36", "U+2C37", "U+2C38", "U+2C39", "U+2C3A", "U+2C3B",
     "U+2C3C", "U+2C3D", "U+2C3E", "U+2C3F", "U+2C40", "U+2C41", "U+2C42", "U+2C43", "U+2C44",
     "U+2C45", "U+2C46", "U+2C47", "U+2C48", "U+2C49", "U+2C4A", "U+2C4B", "U+2C4C", "U+2C4D",
     "U+2C4E", "U+2C4F", "U+2C50", "U+2C51", "U+2C52", "U+2C53", "U+2C54", "U+2C55", "U+2C56",
     "U+2C57", "U+2C58", "U+2C59", "U+2C5A", "U+2C5B", "U+2C5C", "U+2C5D", "U+2C5E", "U+2C5F",
     "U+2C60", "U+2C61", "U+2C62", "U+2C63", "U+2C64", "U+2C65", "U+2C66", "U+2C67", "U+2C68",
     "U+2C69", "U+2C6A", "U+2C6B", "U+2C6C", "U+2C6D", "U+2C6E", "U+2C6F", "U+2C70", "U+2C71",
     "U+2C72", "U+2C73", "U+2C74", "U+2C75", "U+2C76", "U+2C77", "U+2C78", "U+2C79", "U+2C7A",
     "U+2C7B", "U+2C7E", "U+2C7F", "Ⲁ", "ⲁ", "Ⲃ", "ⲃ", "Ⲅ", "ⲅ", "Ⲇ", "ⲇ", "Ⲉ", "ⲉ", "Ⲋ", "ⲋ",
     "Ⲍ", "ⲍ", "Ⲏ", "ⲏ", "Ⲑ", "ⲑ", "Ⲓ", "ⲓ", "Ⲕ", "ⲕ", "Ⲗ", "ⲗ", "Ⲙ", "ⲙ", "Ⲛ", "ⲛ", "Ⲝ", "ⲝ",
     "Ⲟ", "ⲟ", "Ⲡ", "ⲡ", "Ⲣ", "ⲣ", "Ⲥ", "ⲥ", "Ⲧ", "ⲧ", "Ⲩ", "ⲩ", "Ⲫ", "ⲫ", "Ⲭ", "ⲭ", "Ⲯ", "ⲯ",
     "Ⲱ", "ⲱ", "Ⲳ", "ⲳ", "Ⲵ", "ⲵ", "Ⲷ", "ⲷ", "Ⲹ", "ⲹ", "Ⲻ", "ⲻ", "Ⲽ", "ⲽ", "Ⲿ", "ⲿ", "Ⳁ", "ⳁ",
     "Ⳃ", "ⳃ", "Ⳅ", "ⳅ", "Ⳇ", "ⳇ", "Ⳉ", "ⳉ", "Ⳋ", "ⳋ", "Ⳍ", "ⳍ", "Ⳏ", "ⳏ", "Ⳑ", "ⳑ", "Ⳓ", "ⳓ",
     "Ⳕ", "ⳕ", "Ⳗ", "ⳗ", "Ⳙ", "ⳙ", "Ⳛ", "ⳛ", "Ⳝ", "ⳝ", "Ⳟ", "ⳟ", "Ⳡ", "ⳡ", "Ⳣ", "ⳣ", "ⳤ", "Ⳬ",
     "ⳬ", "Ⳮ", "ⳮ", "Ⳳ", "ⳳ", "U+2D00", "U+2D01", "U+2D02", "U+2D03", "U+2D04", "U+2D05",
     "U+2D06", "U+2D07", "U+2D08", "U+2D09", "U+2D0A", "U+2D0B", "U+2D0C", "U+2D0D", "U+2D0E",
     "U+2D0F", "U+2D10", "U+2D11", "U+2D12", "U+2D13", "U+2D14", "U+2D15", "U+2D16", "U+2D17",
     "U+2D18", "U+2D19", "U+2D1A", "U+2D1B", "U+2D1C", "U+2D1D", "U+2D1E", "U+2D1F", "U+2D20",
     "U+2D21", "U+2D22", "U+2D23", "U+2D24", "U+2D25", "U+2D27", "U+2D2D", "U+A640", "U+A641",
     "U+A642", "U+A643", "U+A644", "U+A645", "U+A646", "U+A647", "U+A648", "U+A649", "U+A64A",
     "U+A64B", "U+A64C", "U+A64D", "U+A64E", "U+A64F", "U+A650", "U+A651", "U+A652", "U+A653",
     "U+A654", "U+A655", "U+A656", "U+A657", "U+A658", "U+A659", "U+A65A", "U+A65B", "U+A65C",
     "U+A65D", "U+A65E", "U+A65F", "U+A660", "U+A661", "U+A662", "U+A663", "U+A664", "U+A665",
     "U+A666", "U+A667", "U+A668", "U+A669", "U+A66A", "U+A66B", "U+A66C", "U+A66D", "Ꚁ", "ꚁ",
     "Ꚃ", "ꚃ", "Ꚅ", "ꚅ", "Ꚇ", "ꚇ", "Ꚉ", "ꚉ", "Ꚋ", "ꚋ", "Ꚍ", "ꚍ", "Ꚏ", "ꚏ", "Ꚑ", "ꚑ", "Ꚓ", "ꚓ",
     "Ꚕ", "ꚕ", "Ꚗ", "ꚗ", "Ꚙ", "ꚙ", "Ꚛ", "ꚛ", "U+A722", "U+A723", "U+A724", "U+A725", "U+A726",
     "U+A727", "U+A728", "U+A729", "U+A72A", "U+A72B", "U+A72C", "U+A72D", "U+A72E", "U+A72F",
     "U+A730", "U+A731", "U+A732", "U+A733", "U+A734", "U+A735", "U+A736", "U+A737", "U+A738",
     "U+A739", "U+A73A", "U+A73B", "U+A73C", "U+A73D", "U+A73E", "U+A73F", "U+A740", "U+A741",
     "U+A742", "U+A743", "U+A744", "U+A745", "U+A746", "U+A747", "U+A748", "U+A749", "U+A74A",
     "U+A74B", "U+A74C", "U+A74D", "U+A74E", "U+A74F", "U+A750", "U+A751", "U+A752", "U+A753",
     "U+A754", "U+A755", "U+A756", "U+A757", "U+A758", "U+A759", "U+A75A", "U+A75B", "U+A75C",
     "U+A75D", "U+A75E", "U+A75F", "U+A760", "U+A761", "U+A762", "U+A763", "U+A764", "U+A765",
     "U+A766", "U+A767", "U+A768", "U+A769", "U+A76A", "U+A76B", "U+A76C", "U+A76D", "U+A76E",
     "U+A76F", "U+A771", "U+A772", "U+A773", "U+A774", "U+A775", "U+A776", "U+A777", "U+A778",
     "U+A779", "U+A77A", "U+A77B", "U+A77C", "U+A77D", "U+A77E", "U+A77F", "Ꞁ", "ꞁ", "Ꞃ", "ꞃ",
     "Ꞅ", "ꞅ", "Ꞇ", "ꞇ", "Ꞌ", "ꞌ", "Ɥ", "ꞎ", "Ꞑ", "ꞑ", "Ꞓ", "ꞓ", "ꞔ", "ꞕ", "Ꞗ", "ꞗ", "Ꞙ", "ꞙ",
     "Ꞛ", "ꞛ", "Ꞝ", "ꞝ", "Ꞟ", "ꞟ", "Ꞡ", "ꞡ", "Ꞣ", "ꞣ", "Ꞥ", "ꞥ", "Ꞧ", "ꞧ", "Ꞩ", "ꞩ", "Ɦ", "Ɜ",
     "Ɡ", "Ɬ", "Ɪ", "ꞯ", "Ʞ", "Ʇ", "Ʝ", "Ꭓ", "Ꞵ", "ꞵ", "Ꞷ", "ꞷ", "Ꞹ", "ꞹ", "Ꞻ", "ꞻ", "Ꞽ", "ꞽ",
     "Ꞿ", "ꞿ", "Ꟁ", "ꟁ", "Ꟃ", "ꟃ", "Ꞔ", "Ʂ", "Ᶎ", "Ꟈ", "ꟈ", "Ꟊ", "ꟊ", "Ꟑ", "ꟑ", "ꟓ", "ꟕ", "Ꟗ",
     "ꟗ", "Ꟙ", "ꟙ", "Ꟶ", "ꟶ", "ꟺ", "U+AB30", "U+AB31", "U+AB32", "U+AB33", "U+AB34", "U+AB35",
     "U+AB36", "U+AB37", "U+AB38", "U+AB39", "U+AB3A", "U+AB3B", "U+AB3C", "U+AB3D", "U+AB3E",
     "U+AB3F", "U+AB40", "U+AB41", "U+AB42", "U+AB43", "U+AB44", "U+AB45", "U+AB46", "U+AB47",
     "U+AB48", "U+AB49", "U+AB4A", "U+AB4B", "U+AB4C", "U+AB4D", "U+AB4E", "U+AB4F", "U+AB50",
     "U+AB51", "U+AB52", "U+AB53", "U+AB54", "U+AB55", "U+AB56", "U+AB57", "U+AB58", "U+AB59",
     "U+AB5A", "U+AB60", "U+AB61", "U+AB62", "U+AB63", "U+AB64", "U+AB65", "U+AB66", "U+AB67",
     "U+AB68", "U+AB70", "U+AB71", "U+AB72", "U+AB73", "U+AB74", "U+AB75", "U+AB76", "U+AB77",
     "U+AB78", "U+AB79", "U+AB7A", "U+AB7B", "U+AB7C", "U+AB7D", "U+AB7E", "U+AB7F", "ꮀ", "ꮁ",
     "ꮂ", "ꮃ", "ꮄ", "ꮅ", "ꮆ", "ꮇ", "ꮈ", "ꮉ", "ꮊ", "ꮋ", "ꮌ", "ꮍ", "ꮎ", "ꮏ", "ꮐ", "ꮑ", "ꮒ", "ꮓ",
     "ꮔ", "ꮕ", "ꮖ", "ꮗ", "ꮘ", "ꮙ", "ꮚ", "ꮛ", "ꮜ", "ꮝ", "ꮞ", "ꮟ", "ꮠ", "ꮡ", "ꮢ", "ꮣ", "ꮤ", "ꮥ",
     "ꮦ", "ꮧ", "ꮨ", "ꮩ", "ꮪ", "ꮫ", "ꮬ", "ꮭ", "ꮮ", "ꮯ", "ꮰ", "ꮱ", "ꮲ", "ꮳ", "ꮴ", "ꮵ", "ꮶ", "ꮷ",
     "ꮸ", "ꮹ", "ꮺ", "ꮻ", "ꮼ", "ꮽ", "ꮾ", "ꮿ", "U+FB00", "U+FB01", "U+FB02", "U+FB03", "U+FB04",
     "U+FB05", "U+FB06", "U+FB13", "U+FB14", "U+FB15", "U+FB16", "U+FB17", "U+FF21", "U+FF22",
     "U+FF23", "U+FF24", "U+FF25", "U+FF26", "U+FF27", "U+FF28", "U+FF29", "U+FF2A", "U+FF2B",
     "U+FF2C", "U+FF2D", "U+FF2E", "U+FF2F", "U+FF30", "U+FF31", "U+FF32", "U+FF33", "U+FF34",
     "U+FF35", "U+FF36", "U+FF37", "U+FF38", "U+FF39", "U+FF3A", "U+FF41", "U+FF42", "U+FF43",
     "U+FF44", "U+FF45", "U+FF46", "U+FF47", "U+FF48", "U+FF49", "U+FF4A", "U+FF4B", "U+FF4C",
     "U+FF4D", "U+FF4E", "U+FF4F", "U+FF50", "U+FF51", "U+FF52", "U+FF53", "U+FF54", "U+FF55",
     "U+FF56", "U+FF57", "U+FF58", "U+FF59", "U+FF5A", "U+10400", "U+10401", "U+10402",
     "U+10403", "U+10404", "U+10405", "U+10406", "U+10407", "U+10408", "U+10409", "U+1040A",
     "U+1040B", "U+1040C", "U+1040D", "U+1040E", "U+1040F", "U+10410", "U+10411", "U+10412",
     "U+10413", "U+10414", "U+10415", "U+10416", "U+10417", "U+10418", "U+10419", "U+1041A",
     "U+1041B", "U+1041C", "U+1041D", "U+1041E", "U+1041F", "U+10420", "U+10421", "U+10422",
     "U+10423", "U+10424", "U+10425", "U+10426", "U+10427", "U+10428", "U+10429", "U+1042A",
     "U+1042B", "U+1042C", "U+1042D", "U+1042E", "U+1042F", "U+10430", "U+10431", "U+10432",
     "U+10433", "U+10434", "U+10435", "U+10436", "U+10437", "U+10438", "U+10439", "U+1043A",
     "U+1043B", "U+1043C", "U+1043D", "U+1043E", "U+1043F", "U+10440", "U+10441", "U+10442",
     "U+10443", "U+10444", "U+10445", "U+10446", "U+10447", "U+10448", "U+10449", "U+1044A",
     "U+1044B", "U+1044C", "U+1044D", "U+1044E", "U+1044F", "U+104B0", "U+104B1", "U+104B2",
     "U+104B3", "U+104B4", "U+104B5", "U+104B6", "U+104B7", "U+104B8", "U+104B9", "U+104BA",
     "U+104BB", "U+104BC", "U+104BD", "U+104BE", "U+104BF", "U+104C0", "U+104C1", "U+104C2",
     "U+104C3", "U+104C4", "U+104C5", "U+104C6", "U+104C7", "U+104C8", "U+104C9", "U+104CA",
     "U+104CB", "U+104CC", "U+104CD", "U+104CE", "U+104CF", "U+104D0", "U+104D1", "U+104D2",
     "U+104D3", "U+104D8", "U+104D9", "U+104DA", "U+104DB", "U+104DC", "U+104DD", "U+104DE",
     "U+104DF", "U+104E0", "U+104E1", "U+104E2", "U+104E3", "U+104E4", "U+104E5", "U+104E6",
     "U+104E7", "U+104E8", "U+104E9", "U+104EA", "U+104EB", "U+104EC", "U+104ED", "U+104EE",
     "U+104EF", "U+104F0", "U+104F1", "U+104F2", "U+104F3", "U+104F4", "U+104F5", "U+104F6",
     "U+104F7", "U+104F8", "U+104F9", "U+104FA", "U+104FB", "U+10570", "U+10571", "U+10572",
     "U+10573", "U+10574", "U+10575", "U+10576", "U+10577", "U+10578", "U+10579", "U+1057A",
     "U+1057C", "U+1057D", "U+1057E", "U+1057F", "U+10580", "U+10581", "U+10582", "U+10583",
     "U+10584", "U+10585", "U+10586", "U+10587", "U+10588", "U+10589", "U+1058A", "U+1058C",
     "U+1058D", "U+1058E", "U+1058F", "U+10590", "U+10591", "U+10592", "U+10594", "U+10595",
     "U+10597", "U+10598", "U+10599", "U+1059A", "U+1059B", "U+1059C", "U+1059D", "U+1059E",
     "U+1059F", "U+105A0", "U+105A1", "U+105A3", "U+105A4", "U+105A5", "U+105A6", "U+105A7",
     "U+105A8", "U+105A9", "U+105AA", "U+105AB", "U+105AC", "U+105AD", "U+105AE", "U+105AF",
     "U+105B0", "U+105B1", "U+105B3", "U+105B4", "U+105B5", "U+105B6", "U+105B7", "U+105B8",
     "U+105B9", "U+105BB", "U+105BC", "U+10C80", "U+10C81", "U+10C82", "U+10C83", "U+10C84",
     "U+10C85", "U+10C86", "U+10C87", "U+10C88", "U+10C89", "U+10C8A", "U+10C8B", "U+10C8C",
     "U+10C8D", "U+10C8E", "U+10C8F", "U+10C90", "U+10C91", "U+10C92", "U+10C93", "U+10C94",
     "U+10C95", "U+10C96", "U+10C97", "U+10C98", "U+10C99", "U+10C9A", "U+10C9B", "U+10C9C",
     "U+10C9D", "U+10C9E", "U+10C9F", "U+10CA0", "U+10CA1", "U+10CA2", "U+10CA3", "U+10CA4",
     "U+10CA5", "U+10CA6", "U+10CA7", "U+10CA8", "U+10CA9", "U+10CAA", "U+10CAB", "U+10CAC",
     "U+10CAD", "U+10CAE", "U+10CAF", "U+10CB0", "U+10CB1", "U+10CB2", "U+10CC0", "U+10CC1",
     "U+10CC2", "U+10CC3", "U+10CC4", "U+10CC5", "U+10CC6", "U+10CC7", "U+10CC8", "U+10CC9",
     "U+10CCA", "U+10CCB", "U+10CCC", "U+10CCD", "U+10CCE", "U+10CCF", "U+10CD0", "U+10CD1",
     "U+10CD2", "U+10CD3", "U+10CD4", "U+10CD5", "U+10CD6", "U+10CD7", "U+10CD8", "U+10CD9",
     "U+10CDA", "U+10CDB", "U+10CDC", "U+10CDD", "U+10CDE", "U+10CDF", "U+10CE0", "U+10CE1",
     "U+10CE2", "U+10CE3", "U+10CE4", "U+10CE5", "U+10CE6", "U+10CE7", "U+10CE8", "U+10CE9",
     "U+10CEA", "U+10CEB", "U+10CEC", "U+10CED", "U+10CEE", "U+10CEF", "U+10CF0", "U+10CF1",
     "U+10CF2", "U+118A0", "U+118A1", "U+118A2", "U+118A3", "U+118A4", "U+118A5", "U+118A6",
     "U+118A7", "U+118A8", "U+118A9", "U+118AA", "U+118AB", "U+118AC", "U+118AD", "U+118AE",
     "U+118AF", "U+118B0", "U+118B1", "U+118B2", "U+118B3", "U+118B4", "U+118B5", "U+118B6",
     "U+118B7", "U+118B8", "U+118B9", "U+118BA", "U+118BB", "U+118BC", "U+118BD", "U+118BE",
     "U+118BF", "U+118C0", "U+118C1", "U+118C2", "U+118C3", "U+118C4", "U+118C5", "U+118C6",
     "U+118C7", "U+118C8", "U+118C9", "U+118CA", "U+118CB", "U+118CC", "U+118CD", "U+118CE",
     "U+118CF", "U+118D0", "U+118D1", "U+118D2", "U+118D3", "U+118D4", "U+118D5", "U+118D6",
     "U+118D7", "U+118D8", "U+118D9", "U+118DA", "U+118DB", "U+118DC", "U+118DD", "U+118DE",
     "U+118DF", "U+16E40", "U+16E41", "U+16E42", "U+16E43", "U+16E44", "U+16E45", "U+16E46",
     "U+16E47", "U+16E48", "U+16E49", "U+16E4A", "U+16E4B", "U+16E4C", "U+16E4D", "U+16E4E",
     "U+16E4F", "U+16E50", "U+16E51", "U+16E52", "U+16E53", "U+16E54", "U+16E55", "U+16E56",
     "U+16E57", "U+16E58", "U+16E59", "U+16E5A", "U+16E5B", "U+16E5C", "U+16E5D", "U+16E5E",
     "U+16E5F", "U+16E60", "U+16E61", "U+16E62", "U+16E63", "U+16E64", "U+16E65", "U+16E66",
     "U+16E67", "U+16E68", "U+16E69", "U+16E6A", "U+16E6B", "U+16E6C", "U+16E6D", "U+16E6E",
     "U+16E6F", "U+16E70", "U+16E71", "U+16E72", "U+16E73", "U+16E74", "U+16E75", "U+16E76",
     "U+16E77", "U+16E78", "U+16E79", "U+16E7A", "U+16E7B", "U+16E7C", "U+16E7D", "U+16E7E",
     "U+16E7F", "U+1D400", "U+1D401", "U+1D402", "U+1D403", "U+1D404", "U+1D405", "U+1D406",
     "U+1D407", "U+1D408", "U+1D409", "U+1D40A", "U+1D40B", "U+1D40C", "U+1D40D", "U+1D40E",
     "U+1D40F", "U+1D410", "U+1D411", "U+1D412", "U+1D413", "U+1D414", "U+1D415", "U+1D416",
     "U+1D417", "U+1D418", "U+1D419", "U+1D41A", "U+1D41B", "U+1D41C", "U+1D41D", "U+1D41E",
     "U+1D41F", "U+1D420", "U+1D421", "U+1D422", "U+1D423", "U+1D424", "U+1D425", "U+1D426",
     "U+1D427", "U+1D428", "U+1D429", "U+1D42A", "U+1D42B", "U+1D42C", "U+1D42D", "U+1D42E",
     "U+1D42F", "U+1D430", "U+1D431", "U+1D432", "U+1D433", "U+1D434", "U+1D435", "U+1D436",
     "U+1D437", "U+1D438", "U+1D439", "U+1D43A", "U+1D43B", "U+1D43C", "U+1D43D", "U+1D43E",
     "U+1D43F", "U+1D440", "U+1D441", "U+1D442", "U+1D443", "U+1D444", "U+1D445", "U+1D446",
     "U+1D447", "U+1D448", "U+1D449", "U+1D44A", "U+1D44B", "U+1D44C", "U+1D44D", "U+1D44E",
     "U+1D44F", "U+1D450", "U+1D451", "U+1D452", "U+1D453", "U+1D454", "U+1D456", "U+1D457",
     "U+1D458", "U+1D459", "U+1D45A", "U+1D45B", "U+1D45C", "U+1D45D", "U+1D45E", "U+1D45F",
     "U+1D460", "U+1D461", "U+1D462", "U+1D463", "U+1D464", "U+1D465", "U+1D466", "U+1D467",
     "U+1D468", "U+1D469", "U+1D46A", "U+1D46B", "U+1D46C", "U+1D46D", "U+1D46E", "U+1D46F",
     "U+1D470", "U+1D471", "U+1D472", "U+1D473", "U+1D474", "U+1D475", "U+1D476", "U+1D477",
     "U+1D478", "U+1D479", "U+1D47A", "U+1D47B", "U+1D47C", "U+1D47D", "U+1D47E", "U+1D47F",
     "U+1D480", "U+1D481", "U+1D482", "U+1D483", "U+1D484", "U+1D485", "U+1D486", "U+1D487",
     "U+1D488", "U+1D489", "U+1D48A", "U+1D48B", "U+1D48C", "U+1D48D", "U+1D48E", "U+1D48F",
     "U+1D490", "U+1D491", "U+1D492", "U+1D493", "U+1D494", "U+1D495", "U+1D496", "U+1D497",
     "U+1D498", "U+1D499", "U+1D49A", "U+1D49B", "U+1D49C", "U+1D49E", "U+1D49F", "U+1D4A2",
     "U+1D4A5", "U+1D4A6", "U+1D4A9", "U+1D4AA", "U+1D4AB", "U+1D4AC", "U+1D4AE", "U+1D4AF",
     "U+1D4B0", "U+1D4B1", "U+1D4B2", "U+1D4B3", "U+1D4B4", "U+1D4B5", "U+1D4B6", "U+1D4B7",
     "U+1D4B8", "U+1D4B9", "U+1D4BB", "U+1D4BD", "U+1D4BE", "U+1D4BF", "U+1D4C0", "U+1D4C1",
     "U+1D4C2", "U+1D4C3", "U+1D4C5", "U+1D4C6", "U+1D4C7", "U+1D4C8", "U+1D4C9", "U+1D4CA",
     "U+1D4CB", "U+1D4CC", "U+1D4CD", "U+1D4CE", "U+1D4CF", "U+1D4D0", "U+1D4D1", "U+1D4D2",
     "U+1D4D3", "U+1D4D4", "U+1D4D5", "U+1D4D6", "U+1D4D7", "U+1D4D8", "U+1D4D9", "U+1D4DA",
     "U+1D4DB", "U+1D4DC", "U+1D4DD", "U+1D4DE", "U+1D4DF", "U+1D4E0", "U+1D4E1", "U+1D4E2",
     "U+1D4E3", "U+1D4E4", "U+1D4E5", "U+1D4E6", "U+1D4E7", "U+1D4E8", "U+1D4E9", "U+1D4EA",
     "U+1D4EB", "U+1D4EC", "U+1D4ED", "U+1D4EE", "U+1D4EF", "U+1D4F0", "U+1D4F1", "U+1D4F2",
     "U+1D4F3", "U+1D4F4", "U+1D4F5", "U+1D4F6", "U+1D4F7", "U+1D4F8", "U+1D4F9", "U+1D4FA",
     "U+1D4FB", "U+1D4FC", "U+1D4FD", "U+1D4FE", "U+1D4FF", "U+1D500", "U+1D501", "U+1D502",
     "U+1D503", "U+1D504", "U+1D505", "U+1D507", "U+1D508", "U+1D509", "U+1D50A", "U+1D50D",
     "U+1D50E", "U+1D50F", "U+1D510", "U+1D511", "U+1D512", "U+1D513", "U+1D514", "U+1D516",
     "U+1D517", "U+1D518", "U+1D519", "U+1D51A", "U+1D51B", "U+1D51C", "U+1D51E", "U+1D51F",
     "U+1D520", "U+1D521", "U+1D522", "U+1D523", "U+1D524", "U+1D525", "U+1D526", "U+1D527",
     "U+1D528", "U+1D529", "U+1D52A", "U+1D52B", "U+1D52C", "U+1D52D", "U+1D52E", "U+1D52F",
     "U+1D530", "U+1D531", "U+1D532", "U+1D533", "U+1D534", "U+1D535", "U+1D536", "U+1D537",
     "U+1D538", "U+1D539", "U+1D53B", "U+1D53C", "U+1D53D", "U+1D53E", "U+1D540", "U+1D541",
     "U+1D542", "U+1D543", "U+1D544", "U+1D546", "U+1D54A", "U+1D54B", "U+1D54C", "U+1D54D",
     "U+1D54E", "U+1D54F", "U+1D550", "U+1D552", "U+1D553", "U+1D554", "U+1D555", "U+1D556",
     "U+1D557", "U+1D558", "U+1D559", "U+1D55A", "U+1D55B", "U+1D55C", "U+1D55D", "U+1D55E",
     "U+1D55F", "U+1D560", "U+1D561", "U+1D562", "U+1D563", "U+1D564", "U+1D565", "U+1D566",
     "U+1D567", "U+1D568", "U+1D569", "U+1D56A", "U+1D56B", "U+1D56C", "U+1D56D", "U+1D56E",
     "U+1D56F", "U+1D570", "U+1D571", "U+1D572", "U+1D573", "U+1D574", "U+1D575", "U+1D576",
     "U+1D577", "U+1D578", "U+1D579", "U+1D57A", "U+1D57B", "U+1D57C", "U+1D57D", "U+1D57E",
     "U+1D57F", "U+1D580", "U+1D581", "U+1D582", "U+1D583", "U+1D584", "U+1D585", "U+1D586",
     "U+1D587", "U+1D588", "U+1D589", "U+1D58A", "U+1D58B", "U+1D58C", "U+1D58D", "U+1D58E",
     "U+1D58F", "U+1D590", "U+1D591", "U+1D592", "U+1D593", "U+1D594", "U+1D595", "U+1D596",
     "U+1D597", "U+1D598", "U+1D599", "U+1D59A", "U+1D59B", "U+1D59C", "U+1D59D", "U+1D59E",
     "U+1D59F", "U+1D5A0", "U+1D5A1", "U+1D5A2", "U+1D5A3", "U+1D5A4", "U+1D5A5", "U+1D5A6",
     "U+1D5A7", "U+1D5A8", "U+1D5A9", "U+1D5AA", "U+1D5AB", "U+1D5AC", "U+1D5AD", "U+1D5AE",
     "U+1D5AF", "U+1D5B0", "U+1D5B1", "U+1D5B2", "U+1D5B3", "U+1D5B4", "U+1D5B5", "U+1D5B6",
     "U+1D5B7", "U+1D5B8", "U+1D5B9", "U+1D5BA", "U+1D5BB", "U+1D5BC", "U+1D5BD", "U+1D5BE",
     "U+1D5BF", "U+1D5C0", "U+1D5C1", "U+1D5C2", "U+1D5C3", "U+1D5C4", "U+1D5C5", "U+1D5C6",
     "U+1D5C7", "U+1D5C8", "U+1D5C9", "U+1D5CA", "U+1D5CB", "U+1D5CC", "U+1D5CD", "U+1D5CE",
     "U+1D5CF", "U+1D5D0", "U+1D5D1", "U+1D5D2", "U+1D5D3", "U+1D5D4", "U+1D5D5", "U+1D5D6",
     "U+1D5D7", "U+1D5D8", "U+1D5D9", "U+1D5DA", "U+1D5DB", "U+1D5DC", "U+1D5DD", "U+1D5DE",
     "U+1D5DF", "U+1D5E0", "U+1D5E1", "U+1D5E2", "U+1D5E3", "U+1D5E4", "U+1D5E5", "U+1D5E6",
     "U+1D5E7", "U+1D5E8", "U+1D5E9", "U+1D5EA", "U+1D5EB", "U+1D5EC", "U+1D5ED", "U+1D5EE",
     "U+1D5EF", "U+1D5F0", "U+1D5F1", "U+1D5F2", "U+1D5F3", "U+1D5F4", "U+1D5F5", "U+1D5F6",
     "U+1D5F7", "U+1D5F8", "U+1D5F9", "U+1D5FA", "U+1D5FB", "U+1D5FC", "U+1D5FD", "U+1D5FE",
     "U+1D5FF", "U+1D600", "U+1D601", "U+1D602", "U+1D603", "U+1D604", "U+1D605", "U+1D606",
     "U+1D607", "U+1D608", "U+1D609", "U+1D60A", "U+1D60B", "U+1D60C", "U+1D60D", "U+1D60E",
     "U+1D60F", "U+1D610", "U+1D611", "U+1D612", "U+1D613", "U+1D614", "U+1D615", "U+1D616",
     "U+1D617", "U+1D618", "U+1D619", "U+1D61A", "U+1D61B", "U+1D61C", "U+1D61D", "U+1D61E",
     "U+1D61F", "U+1D620", "U+1D621", "U+1D622", "U+1D623", "U+1D624", "U+1D625", "U+1D626",
     "U+1D627", "U+1D628", "U+1D629", "U+1D62A", "U+1D62B", "U+1D62C", "U+1D62D", "U+1D62E",
     "U+1D62F", "U+1D630", "U+1D631", "U+1D632", "U+1D633", "U+1D634", "U+1D635", "U+1D636",
     "U+1D637", "U+1D638", "U+1D639", "U+1D63A", "U+1D63B", "U+1D63C", "U+1D63D", "U+1D63E",
     "U+1D63F", "U+1D640", "U+1D641", "U+1D642", "U+1D643", "U+1D644", "U+1D645", "U+1D646",
     "U+1D647", "U+1D648", "U+1D649", "U+1D64A", "U+1D64B", "U+1D64C", "U+1D64D", "U+1D64E",
     "U+1D64F", "U+1D650", "U+1D651", "U+1D652", "U+1D653", "U+1D654", "U+1D655", "U+1D656",
     "U+1D657", "U+1D658", "U+1D659", "U+1D65A", "U+1D65B", "U+1D65C", "U+1D65D", "U+1D65E",
     "U+1D65F", "U+1D660", "U+1D661", "U+1D662", "U+1D663", "U+1D664", "U+1D665", "U+1D666",
     "U+1D667", "U+1D668", "U+1D669", "U+1D66A", "U+1D66B", "U+1D66C", "U+1D66D", "U+1D66E",
     "U+1D66F", "U+1D670", "U+1D671", "U+1D672", "U+1D673", "U+1D674", "U+1D675", "U+1D676",
     "U+1D677", "U+1D678", "U+1D679", "U+1D67A", "U+1D67B", "U+1D67C", "U+1D67D", "U+1D67E",
     "U+1D67F", "U+1D680", "U+1D681", "U+1D682", "U+1D683", "U+1D684", "U+1D685", "U+1D686",
     "U+1D687", "U+1D688", "U+1D689", "U+1D68A", "U+1D68B", "U+1D68C", "U+1D68D", "U+1D68E",
     "U+1D68F", "U+1D690", "U+1D691", "U+1D692", "U+1D693", "U+1D694", "U+1D695", "U+1D696",
     "U+1D697", "U+1D698", "U+1D699", "U+1D69A", "U+1D69B", "U+1D69C", "U+1D69D", "U+1D69E",
     "U+1D69F", "U+1D6A0", "U+1D6A1", "U+1D6A2", "U+1D6A3", "U+1D6A4", "U+1D6A5", "U+1D6A8",
     "U+1D6A9", "U+1D6AA", "U+1D6AB", "U+1D6AC", "U+1D6AD", "U+1D6AE", "U+1D6AF", "U+1D6B0",
     "U+1D6B1", "U+1D6B2", "U+1D6B3", "U+1D6B4", "U+1D6B5", "U+1D6B6", "U+1D6B7", "U+1D6B8",
     "U+1D6B9", "U+1D6BA", "U+1D6BB", "U+1D6BC", "U+1D6BD", "U+1D6BE", "U+1D6BF", "U+1D6C0",
     "U+1D6C2", "U+1D6C3", "U+1D6C4", "U+1D6C5", "U+1D6C6", "U+1D6C7", "U+1D6C8", "U+1D6C9",
     "U+1D6CA", "U+1D6CB", "U+1D6CC", "U+1D6CD", "U+1D6CE", "U+1D6CF", "U+1D6D0", "U+1D6D1",
     "U+1D6D2", "U+1D6D3", "U+1D6D4", "U+1D6D5", "U+1D6D6", "U+1D6D7", "U+1D6D8", "U+1D6D9",
     "U+1D6DA", "U+1D6DC", "U+1D6DD", "U+1D6DE", "U+1D6DF", "U+1D6E0", "U+1D6E1", "U+1D6E2",
     "U+1D6E3", "U+1D6E4", "U+1D6E5", "U+1D6E6", "U+1D6E7", "U+1D6E8", "U+1D6E9", "U+1D6EA",
     "U+1D6EB", "U+1D6EC", "U+1D6ED", "U+1D6EE", "U+1D6EF", "U+1D6F0", "U+1D6F1", "U+1D6F2",
     "U+1D6F3", "U+1D6F4", "U+1D6F5", "U+1D6F6", "U+1D6F7", "U+1D6F8", "U+1D6F9", "U+1D6FA",
     "U+1D6FC", "U+1D6FD", "U+1D6FE", "U+1D6FF", "U+1D700", "U+1D701", "U+1D702", "U+1D703",
     "U+1D704", "U+1D705", "U+1D706", "U+1D707", "U+1D708", "U+1D709", "U+1D70A", "U+1D70B",
     "U+1D70C", "U+1D70D", "U+1D70E", "U+1D70F", "U+1D710", "U+1D711", "U+1D712", "U+1D713",
     "U+1D714", "U+1D716", "U+1D717", "U+1D718", "U+1D719", "U+1D71A", "U+1D71B", "U+1D71C",
     "U+1D71D", "U+1D71E", "U+1D71F", "U+1D720", "U+1D721", "U+1D722", "U+1D723", "U+1D724",
     "U+1D725", "U+1D726", "U+1D727", "U+1D728", "U+1D729", "U+1D72A", "U+1D72B", "U+1D72C",
     "U+1D72D", "U+1D72E", "U+1D72F", "U+1D730", "U+1D731", "U+1D732", "U+1D733", "U+1D734",
     "U+1D736", "U+1D737", "U+1D738", "U+1D739", "U+1D73A", "U+1D73B", "U+1D73C", "U+1D73D",
     "U+1D73E", "U+1D73F", "U+1D740", "U+1D741", "U+1D742", "U+1D743", "U+1D744", "U+1D745",
     "U+1D746", "U+1D747", "U+1D748", "U+1D749", "U+1D74A", "U+1D74B", "U+1D74C", "U+1D74D",
     "U+1D74E", "U+1D750", "U+1D751", "U+1D752", "U+1D753", "U+1D754", "U+1D755", "U+1D756",
     "U+1D757", "U+1D758", "U+1D759", "U+1D75A", "U+1D75B", "U+1D75C", "U+1D75D", "U+1D75E",
     "U+1D75F", "U+1D760", "U+1D761", "U+1D762", "U+1D763", "U+1D764", "U+1D765", "U+1D766",
     "U+1D767", "U+1D768", "U+1D769", "U+1D76A", "U+1D76B", "U+1D76C", "U+1D76D", "U+1D76E",
     "U+1D770", "U+1D771", "U+1D772", "U+1D773", "U+1D774", "U+1D775", "U+1D776", "U+1D777",
     "U+1D778", "U+1D779", "U+1D77A", "U+1D77B", "U+1D77C", "U+1D77D", "U+1D77E", "U+1D77F",
     "U+1D780", "U+1D781", "U+1D782", "U+1D783", "U+1D784", "U+1D785", "U+1D786", "U+1D787",
     "U+1D788", "U+1D78A", "U+1D78B", "U+1D78C", "U+1D78D", "U+1D78E", "U+1D78F", "U+1D790",
     "U+1D791", "U+1D792", "U+1D793", "U+1D794", "U+1D795", "U+1D796", "U+1D797", "U+1D798",
     "U+1D799", "U+1D79A", "U+1D79B", "U+1D79C", "U+1D79D", "U+1D79E", "U+1D79F", "U+1D7A0",
     "U+1D7A1", "U+1D7A2", "U+1D7A3", "U+1D7A4", "U+1D7A5", "U+1D7A6", "U+1D7A7", "U+1D7A8",
     "U+1D7AA", "U+1D7AB", "U+1D7AC", "U+1D7AD", "U+1D7AE", "U+1D7AF", "U+1D7B0", "U+1D7B1",
     "U+1D7B2", "U+1D7B3", "U+1D7B4", "U+1D7B5", "U+1D7B6", "U+1D7B7", "U+1D7B8", "U+1D7B9",
     "U+1D7BA", "U+1D7BB", "U+1D7BC", "U+1D7BD", "U+1D7BE", "U+1D7BF", "U+1D7C0", "U+1D7C1",
     "U+1D7C2", "U+1D7C4", "U+1D7C5", "U+1D7C6", "U+1D7C7", "U+1D7C8", "U+1D7C9", "U+1D7CA",
     "U+1D7CB", "U+1DF00", "U+1DF01", "U+1DF02", "U+1DF03", "U+1DF04", "U+1DF05", "U+1DF06",
     "U+1DF07", "U+1DF08", "U+1DF09", "U+1DF0B", "U+1DF0C", "U+1DF0D", "U+1DF0E", "U+1DF0F",
     "U+1DF10", "U+1DF11", "U+1DF12", "U+1DF13", "U+1DF14", "U+1DF15", "U+1DF16", "U+1DF17",
     "U+1DF18", "U+1DF19", "U+1DF1A", "U+1DF1B", "U+1DF1C", "U+1DF1D", "U+1DF1E", "U+1E900",
     "U+1E901", "U+1E902", "U+1E903", "U+1E904", "U+1E905", "U+1E906", "U+1E907", "U+1E908",
     "U+1E909", "U+1E90A", "U+1E90B", "U+1E90C", "U+1E90D", "U+1E90E", "U+1E90F", "U+1E910",
     "U+1E911", "U+1E912", "U+1E913", "U+1E914", "U+1E915", "U+1E916", "U+1E917", "U+1E918",
     "U+1E919", "U+1E91A", "U+1E91B", "U+1E91C", "U+1E91D", "U+1E91E", "U+1E91F", "U+1E920",
     "U+1E921", "U+1E922", "U+1E923", "U+1E924", "U+1E925", "U+1E926", "U+1E927", "U+1E928",
     "U+1E929", "U+1E92A", "U+1E92B", "U+1E92C", "U+1E92D", "U+1E92E", "U+1E92F", "U+1E930",
     "U+1E931", "U+1E932", "U+1E933", "U+1E934", "U+1E935", "U+1E936", "U+1E937", "U+1E938",
     "U+1E939", "U+1E93A", "U+1E93B", "U+1E93C", "U+1E93D", "U+1E93E", "U+1E93F", "U+1E940",
     "U+1E941", "U+1E942", "U+1E943", "U+1F130", "U+1F131", "U+1F132", "U+1F133", "U+1F134",
     "U+1F135", "U+1F136", "U+1F137", "U+1F138", "U+1F139", "U+1F13A", "U+1F13B", "U+1F13C",
     "U+1F13D", "U+1F13E", "U+1F13F", "U+1F140", "U+1F141", "U+1F142", "U+1F143", "U+1F144",
     "U+1F145", "U+1F146", "U+1F147", "U+1F148", "U+1F149", "U+1F150", "U+1F151", "U+1F152",
     "U+1F153", "U+1F154", "U+1F155", "U+1F156", "U+1F157", "U+1F158", "U+1F159", "U+1F15A",
     "U+1F15B", "U+1F15C", "U+1F15D", "U+1F15E", "U+1F15F", "U+1F160", "U+1F161", "U+1F162",
     "U+1F163", "U+1F164", "U+1F165", "U+1F166", "U+1F167", "U+1F168", "U+1F169", "U+1F170",
     "U+1F171", "U+1F172", "U+1F173", "U+1F174", "U+1F175", "U+1F176", "U+1F177", "U+1F178",
     "U+1F179", "U+1F17A", "U+1F17B", "U+1F17C", "U+1F17D", "U+1F17E", "U+1F17F", "U+1F180",
     "U+1F181", "U+1F182", "U+1F183", "U+1F184", "U+1F185", "U+1F186", "U+1F187", "U+1F188",
     "U+1F189"}

\* The case-ignorable characters, which str.lower() skips around a capital
\* sigma.
CaseIgnorable ==
    {"'", ".", ":", "^", "U+0060", "¨", "­", "¯", "´", "·", "¸", "ʰ", "ʱ", "ʲ", "ʳ", "ʴ", "ʵ",
     "ʶ", "ʷ", "ʸ", "ʹ", "ʺ", "ʻ", "ʼ", "ʽ", "ʾ", "ʿ", "ˀ", "ˁ", "˂", "˃", "˄", "˅", "ˆ", "ˇ",
     "ˈ", "ˉ", "ˊ", "ˋ", "ˌ", "ˍ", "ˎ", "ˏ", "ː", "ˑ", "˒", "˓", "˔", "˕", "˖", "˗", "˘", "˙",
     "˚", "˛", "˜", "˝", "˞", "˟", "ˠ", "ˡ", "ˢ", "ˣ", "ˤ", "˥", "˦", "˧", "˨", "˩", "˪", "˫",
     "ˬ", "˭", "ˮ", "˯", "˰", "˱", "˲", "˳", "˴", "˵", "˶", "˷", "˸", "˹", "˺", "˻", "˼", "˽",
     "˾", "˿", "U+0300", "U+0301", "U+0302", "U+0303", "U+0304", "U+0305", "U+0306", "U+0307",
     "U+0308", "U+0309", "U+030A", "U+030B", "U+030C", "U+030D", "U+030E", "U+030F", "U+0310",
     "U+0311", "U+0312", "U+0313", "U+0314", "U+0315", "U+0316", "U+0317", "U+0318", "U+0319",
     "U+031A", "U+031B", "U+031C", "U+031D", "U+031E", "U+031F", "U+0320", "U+0321", "U+0322",
     "U+0323", "U+0324", "U+0325", "U+0326", "U+0327", "U+0328", "U+0329", "U+032A", "U+032B",
     "U+032C", "U+032D", "U+032E", "U+032F", "U+0330", "U+0331", "U+0332", "U+0333", "U+0334",
     "U+0335", "U+0336", "U+0337", "U+0338", "U+0339", "U+033A", "U+033B", "U+033C", "U+033D",
     "U+033E", "U+033F", "U+0340", "U+0341", "U+0342", "U+0343", "U+0344", "U+0345", "U+0346",
     "U+0347", "U+0348", "U+0349", "U+034A", "U+034B", "U+034C", "U+034D", "U+034E", "U+034F",
     "U+0350", "U+0351", "U+0352", "U+0353", "U+0354", "U+0355", "U+0356", "U+0357", "U+0358",
     "U+0359", "U+035A", "U+035B", "U+035C", "U+035D", "U+035E", "U+035F", "U+0360", "U+0361",
     "U+0362", "U+0363", "U+0364", "U+0365", "U+0366", "U+0367", "U+0368", "U+0369", "U+036A",
     "U+036B", "U+036C", "U+036D", "U+036E", "U+036F", "U+0374", "U+0375", "U+037A", "΄", "΅",
     "·", "҃", "҄", "҅", "҆", "҇", "҈", "҉", "U+0559", "U+055F", "֑", "֒", "֓", "֔", "֕", "֖",
     "֗", "֘", "֙", "֚", "֛", "֜", "֝", "֞", "֟", "֠", "֡", "֢", "֣", "֤", "֥", "֦", "֧", "֨",
     "֩", "֪", "֫", "֬", "֭", "֮", "֯", "ְ", "ֱ", "ֲ", "ֳ", "ִ", "ֵ", "ֶ", "ַ", "ָ", "ֹ", "ֺ",
     "ֻ", "ּ", "ֽ", "ֿ", "ׁ", "ׂ", "ׄ", "ׅ", "ׇ", "״", "U+0600", "U+0601", "U+0602", "U+0603",
     "U+0604", "U+0605", "U+0610", "U+0611", "U+0612", "U+0613", "U+0614", "U+0615", "U+0616",
     "U+0617", "U+0618", "U+0619", "U+061A", "U+061C", "U+0640", "U+064B", "U+064C", "U+064D",
     "U+064E", "U+064F", "U+0650", "U+0651", "U+0652", "U+0653", "U+0654", "U+0655", "U+0656",
     "U+0657", "U+0658", "U+0659", "U+065A", "U+065B", "U+065C", "U+065D", "U+065E", "U+065F",
     "U+0670", "ۖ", "ۗ", "ۘ", "ۙ", "ۚ", "ۛ", "ۜ", "۝", "۟", "۠", "ۡ", "ۢ", "ۣ", "ۤ", "ۥ", "ۦ",
     "ۧ", "ۨ", "۪", "۫", "۬", "ۭ", "U+070F", "U+0711", "U+0730", "U+0731", "U+0732", "U+0733",
     "U+0734", "U+0735", "U+0736", "U+0737", "U+0738", "U+0739", "U+073A", "U+073B", "U+073C",
     "U+073D", "U+073E", "U+073F", "U+0740", "U+0741", "U+0742", "U+0743", "U+0744", "U+0745",
     "U+0746", "U+0747", "U+0748", "U+0749", "U+074A", "ަ", "ާ", "ި", "ީ", "ު", "ޫ", "ެ", "ޭ",
     "ޮ", "ޯ", "ް", "߫", "߬", "߭", "߮", "߯", "߰", "߱", "߲", "߳", "ߴ", "ߵ", "ߺ", "߽", "U+0816",
     "U+0817", "U+0818", "U+0819", "U+081A", "U+081B", "U+081C", "U+081D", "U+081E", "U+081F",
     "U+0820", "U+0821", "U+0822", "U+0823", "U+0824", "U+0825", "U+0826", "U+0827", "U+0828",
     "U+0829", "U+082A", "U+082B", "U+082C", "U+082D", "U+0859", "U+085A", "U+085B", "࢈", "࢐",
     "࢑", "࢘", "࢙", "࢚", "࢛", "࢜", "࢝", "࢞", "࢟", "ࣉ", "࣊", "࣋", "࣌", "࣍", "࣎", "࣏", "࣐", "࣑",
     "࣒", "࣓", "ࣔ", "ࣕ", "ࣖ", "ࣗ", "ࣘ", "ࣙ", "ࣚ", "ࣛ", "ࣜ", "ࣝ", "ࣞ", "ࣟ", "࣠", "࣡", "࣢", "ࣣ",
     "ࣤ", "ࣥ", "ࣦ", "ࣧ", "ࣨ", "ࣩ", "࣪", "࣫", "࣬", "࣭", "࣮", "࣯", "ࣰ", "ࣱ", "ࣲ", "ࣳ", "ࣴ", "ࣵ",
     "ࣶ", "ࣷ", "ࣸ", "ࣹ", "ࣺ", "ࣻ", "ࣼ", "ࣽ", "ࣾ", "ࣿ", "U+0900", "U+0901", "U+0902", "U+093A",
     "U+093C", "U+0941", "U+0942", "U+0943", "U+0944", "U+0945", "U+0946", "U+0947", "U+0948",
     "U+094D", "U+0951", "U+0952", "U+0953", "U+0954", "U+0955", "U+0956", "U+0957", "U+0962",
     "U+0963", "U+0971", "ঁ", "়", "ু", "ূ", "ৃ", "ৄ", "্", "ৢ", "ৣ", "৾", "U+0A01", "U+0A02",
     "U+0A3C", "U+0A41", "U+0A42", "U+0A47", "U+0A48", "U+0A4B", "U+0A4C", "U+0A4D", "U+0A51",
     "U+0A70", "U+0A71", "U+0A75", "ઁ", "ં", "઼", "ુ", "ૂ", "ૃ", "ૄ", "ૅ", "ે", "ૈ", "્", "ૢ",
     "ૣ", "ૺ", "ૻ", "ૼ", "૽", "૾", "૿", "U+0B01", "U+0B3C", "U+0B3F", "U+0B41", "U+0B42",
     "U+0B43", "U+0B44", "U+0B4D", "U+0B55", "U+0B56", "U+0B62", "U+0B63", "ஂ", "ீ", "்",
     "U+0C00", "U+0C04", "U+0C3C", "U+0C3E", "U+0C3F", "U+0C40", "U+0C46", "U+0C47", "U+0C48",
     "U+0C4A", "U+0C4B", "U+0C4C", "U+0C4D", "U+0C55", "U+0C56", "U+0C62", "U+0C63", "ಁ", "಼",
     "ಿ", "ೆ", "ೌ", "್", "ೢ", "ೣ", "U+0D00", "U+0D01", "U+0D3B", "U+0D3C", "U+0D41", "U+0D42",
     "U+0D43", "U+0D44", "U+0D4D", "U+0D62", "U+0D63", "ඁ", "්", "ි", "ී", "ු", "ූ", "U+0E31",
     "U+0E34", "U+0E35", "U+0E36", "U+0E37", "U+0E38", "U+0E39", "U+0E3A", "U+0E46", "U+0E47",
     "U+0E48", "U+0E49", "U+0E4A", "U+0E4B", "U+0E4C", "U+0E4D", "U+0E4E", "ັ", "ິ", "ີ", "ຶ",
     "ື", "ຸ", "ູ", "຺", "ົ", "ຼ", "ໆ", "່", "້", "໊", "໋", "໌", "ໍ", "U+0F18", "U+0F19",
     "U+0F35", "U+0F37", "U+0F39", "U+0F71", "U+0F72", "U+0F73", "U+0F74", "U+0F75", "U+0F76",
     "U+0F77", "U+0F78", "U+0F79", "U+0F7A", "U+0F7B", "U+0F7C", "U+0F7D", "U+0F7E", "ྀ", "ཱྀ",
     "ྂ", "ྃ", "྄", "྆", "྇", "ྍ", "ྎ", "ྏ", "ྐ", "ྑ", "ྒ", "ྒྷ", "ྔ", "ྕ", "ྖ", "ྗ", "ྙ", "ྚ",
     "ྛ", "ྜ", "ྜྷ", "ྞ", "ྟ", "ྠ", "ྡ", "ྡྷ", "ྣ", "ྤ", "ྥ", "ྦ", "ྦྷ", "ྨ", "ྩ", "ྪ", "ྫ", "ྫྷ",
     "ྭ", "ྮ", "ྯ", "ྰ", "ྱ", "ྲ", "ླ", "ྴ", "ྵ", "ྶ", "ྷ", "ྸ", "ྐྵ", "ྺ", "ྻ", "ྼ", "࿆",
     "U+102D", "U+102E", "U+102F", "U+1030", "U+1032", "U+1033", "U+1034", "U+1035", "U+1036",
     "U+1037", "U+1039", "U+103A", "U+103D", "U+103E", "U+1058", "U+1059", "U+105E", "U+105F",
     "U+1060", "U+1071", "U+1072", "U+1073", "U+1074", "ႂ", "ႅ", "ႆ", "ႍ", "ႝ", "ჼ", "U+135D",
     "U+135E", "U+135F", "U+1712", "U+1713", "U+1714", "U+1732", "U+1733", "U+1752", "U+1753",
     "U+1772", "U+1773", "឴", "឵", "ិ", "ី", "ឹ", "ឺ", "ុ", "ូ", "ួ", "ំ", "៉", "៊", "់", "៌",
     "៍", "៎", "៏", "័", "៑", "្", "៓", "ៗ", "៝", "U+180B", "U+180C", "U+180D", "U+180E",
     "U+180F", "U+1843", "ᢅ", "ᢆ", "ᢩ", "U+1920", "U+1921", "U+1922", "U+1927", "U+1928",
     "U+1932", "U+1939", "U+193A", "U+193B", "U+1A17", "U+1A18", "U+1A1B", "U+1A56", "U+1A58",
     "U+1A59", "U+1A5A", "U+1A5B", "U+1A5C", "U+1A5D", "U+1A5E", "U+1A60", "U+1A62", "U+1A65",
     "U+1A66", "U+1A67", "U+1A68", "U+1A69", "U+1A6A", "U+1A6B", "U+1A6C", "U+1A73", "U+1A74",
     "U+1A75", "U+1A76", "U+1A77", "U+1A78", "U+1A79", "U+1A7A", "U+1A7B", "U+1A7C", "U+1A7F",
     "ᪧ", "᪰", "᪱", "᪲", "᪳", "᪴", "᪵", "᪶", "᪷", "᪸", "᪹", "᪺", "᪻", "᪼", "᪽", "᪾", "ᪿ", "ᫀ",
     "᫁", "᫂", "᫃", "᫄", "᫅", "᫆", "᫇", "᫈", "᫉", "᫊", "᫋", "ᫌ", "ᫍ", "ᫎ", "U+1B00", "U+1B01",
     "U+1B02", "U+1B03", "U+1B34", "U+1B36", "U+1B37", "U+1B38", "U+1B39", "U+1B3A", "U+1B3C",
     "U+1B42", "U+1B6B", "U+1B6C", "U+1B6D", "U+1B6E", "U+1B6F", "U+1B70", "U+1B71", "U+1B72",
     "U+1B73", "ᮀ", "ᮁ", "ᮢ", "ᮣ", "ᮤ", "ᮥ", "ᮨ", "ᮩ", "᮫", "ᮬ", "ᮭ", "᯦", "ᯨ", "ᯩ", "ᯭ", "ᯯ",
     "ᯰ", "ᯱ", "U+1C2C", "U+1C2D", "U+1C2E", "U+1C2F", "U+1C30", "U+1C31", "U+1C32", "U+1C33",
     "U+1C36", "U+1C37", "U+1C78", "U+1C79", "U+1C7A", "U+1C7B", "U+1C7C", "U+1C7D", "᳐", "᳑",
     "᳒", "᳔", "᳕", "᳖", "᳗", "᳘", "᳙", "᳚", "᳛", "᳜", "᳝", "᳞", "᳟", "᳠", "᳢", "᳣", "᳤", "᳥",
     "᳦", "᳧", "᳨", "᳭", "᳴", "᳸", "᳹", "U+1D2C", "U+1D2D", "U+1D2E", "U+1D2F", "U+1D30",
     "U+1D31", "U+1D32", "U+1D33", "U+1D34", "U+1D35", "U+1D36", "U+1D37", "U+1D38", "U+1D39",
     "U+1D3A", "U+1D3B", "U+1D3C", "U+1D3D", "U+1D3E", "U+1D3F", "U+1D40", "U+1D41", "U+1D42",
     "U+1D43", "U+1D44", "U+1D45", "U+1D46", "U+1D47", "U+1D48", "U+1D49", "U+1D4A", "U+1D4B",
     "U+1D4C", "U+1D4D", "U+1D4E", "U+1D4F", "U+1D50", "U+1D51", "U+1D52", "U+1D53", "U+1D54",
     "U+1D55", "U+1D56", "U+1D57", "U+1D58", "U+1D59", "U+1D5A", "U+1D5B", "U+1D5C", "U+1D5D",
     "U+1D5E", "U+1D5F", "U+1D60", "U+1D61", "U+1D62", "U+1D63", "U+1D64", "U+1D65", "U+1D66",
     "U+1D67", "U+1D68", "U+1D69", "U+1D6A", "U+1D78", "ᶛ", "ᶜ", "ᶝ", "ᶞ", "ᶟ", "ᶠ", "ᶡ", "ᶢ",
     "ᶣ", "ᶤ", "ᶥ", "ᶦ", "ᶧ", "ᶨ", "ᶩ", "ᶪ", "ᶫ", "ᶬ", "ᶭ", "ᶮ", "ᶯ", "ᶰ", "ᶱ", "ᶲ", "ᶳ", "ᶴ",
     "ᶵ", "ᶶ", "ᶷ", "ᶸ", "ᶹ", "ᶺ", "ᶻ", "ᶼ", "ᶽ", "ᶾ", "ᶿ", "᷀", "᷁", "᷂", "᷃", "᷄", "᷅", "᷆",
     "᷇", "᷈", "᷉", "᷊", "᷋", "᷌", "᷍", "᷎", "᷏", "᷐", "᷑", "᷒", "ᷓ", "ᷔ", "ᷕ", "ᷖ", "ᷗ", "ᷘ",
     "ᷙ", "ᷚ", "ᷛ", "ᷜ", "ᷝ", "ᷞ", "ᷟ", "ᷠ", "ᷡ", "ᷢ", "ᷣ", "ᷤ", "ᷥ", "ᷦ", "ᷧ", "ᷨ", "ᷩ", "ᷪ",
     "ᷫ", "ᷬ", "ᷭ", "ᷮ", "ᷯ", "ᷰ", "ᷱ", "ᷲ", "ᷳ", "ᷴ", "᷵", "᷶", "᷷", "᷸", "᷹", "᷺", "᷻", "᷼",
     "᷽", "᷾", "᷿", "᾽", "᾿", "῀", "῁", "῍", "῎", "῏", "῝", "῞", "῟", "῭", "΅", "`", "´", "῾",
     "U+200B", "U+200C", "U+200D", "U+200E", "U+200F", "U+2018", "U+2019", "U+2024", "U+2027",
     "U+202A", "U+202B", "U+202C", "U+202D", "U+202E", "U+2060", "U+2061", "U+2062", "U+2063",
     "U+2064", "U+2066", "U+2067", "U+2068", "U+2069", "U+206A", "U+206B", "U+206C", "U+206D",
     "U+206E", "U+206F", "U+2071", "U+207F", "ₐ", "ₑ", "ₒ", "ₓ", "ₔ", "ₕ", "ₖ", "ₗ", "ₘ", "ₙ",
     "ₚ", "ₛ", "ₜ", "⃐", "⃑", "⃒", "⃓", "⃔", "⃕", "⃖", "⃗", "⃘", "⃙", "⃚", "⃛", "⃜", "⃝", "⃞",
     "⃟", "⃠", "⃡", "⃢", "⃣", "⃤", "⃥", "⃦", "⃧", "⃨", "⃩", "⃪", "⃫", "⃬", "⃭", "⃮", "⃯", "⃰",
     "U+2C7C", "U+2C7D", "⳯", "⳰", "⳱", "U+2D6F", "U+2D7F", "ⷠ", "ⷡ", "ⷢ", "ⷣ", "ⷤ", "ⷥ", "ⷦ",
     "ⷧ", "ⷨ", "ⷩ", "ⷪ", "ⷫ", "ⷬ", "ⷭ", "ⷮ", "ⷯ", "ⷰ", "ⷱ", "ⷲ", "ⷳ", "ⷴ", "ⷵ", "ⷶ", "ⷷ", "ⷸ",
     "ⷹ", "ⷺ", "ⷻ", "ⷼ", "ⷽ", "ⷾ", "ⷿ", "U+2E2F", "U+3005", "U+302A", "U+302B", "U+302C",
     "U+302D", "U+3031", "U+3032", "U+3033", "U+3034", "U+3035", "U+303B", "゙", "゚", "゛", "゜",
     "ゝ", "ゞ", "ー", "ヽ", "ヾ", "U+A015", "ꓸ", "ꓹ", "ꓺ", "ꓻ", "ꓼ", "ꓽ", "U+A60C", "U+A66F",
     "U+A670", "U+A671", "U+A672", "U+A674", "U+A675", "U+A676", "U+A677", "U+A678", "U+A679",
     "U+A67A", "U+A67B", "U+A67C", "U+A67D", "U+A67F", "ꚜ", "ꚝ", "ꚞ", "ꚟ", "꛰", "꛱", "U+A700",
     "U+A701", "U+A702", "U+A703", "U+A704", "U+A705", "U+A706", "U+A707", "U+A708", "U+A709",
     "U+A70A", "U+A70B", "U+A70C", "U+A70D", "U+A70E", "U+A70F", "U+A710", "U+A711", "U+A712",
     "U+A713", "U+A714", "U+A715", "U+A716", "U+A717", "U+A718", "U+A719", "U+A71A", "U+A71B",
     "U+A71C", "U+A71D", "U+A71E", "U+A71F", "U+A720", "U+A721", "U+A770", "ꞈ", "꞉", "꞊", "ꟲ",
     "ꟳ", "ꟴ", "ꟸ", "ꟹ", "U+A802", "U+A806", "U+A80B", "U+A825", "U+A826", "U+A82C", "꣄", "ꣅ",
     "꣠", "꣡", "꣢", "꣣", "꣤", "꣥", "꣦", "꣧", "꣨", "꣩", "꣪", "꣫", "꣬", "꣭", "꣮", "꣯", "꣰", "꣱",
     "ꣿ", "U+A926", "U+A927", "U+A928", "U+A929", "U+A92A", "U+A92B", "U+A92C", "U+A92D",
     "U+A947", "U+A948", "U+A949", "U+A94A", "U+A94B", "U+A94C", "U+A94D", "U+A94E", "U+A94F",
     "U+A950", "U+A951", "ꦀ", "ꦁ", "ꦂ", "꦳", "ꦶ", "ꦷ", "ꦸ", "ꦹ", "ꦼ", "ꦽ", "ꧏ", "ꧥ", "ꧦ",
     "U+AA29", "U+AA2A", "U+AA2B", "U+AA2C", "U+AA2D", "U+AA2E", "U+AA31", "U+AA32", "U+AA35",
     "U+AA36", "U+AA43", "U+AA4C", "U+AA70", "U+AA7C", "ꪰ", "ꪲ", "ꪳ", "ꪴ", "ꪷ", "ꪸ", "ꪾ", "꪿",
     "꫁", "ꫝ", "ꫬ", "ꫭ", "ꫳ", "ꫴ", "꫶", "U+AB5B", "U+AB5C", "U+AB5D", "U+AB5E", "U+AB5F",
     "U+AB69", "U+AB6A", "U+AB6B", "ꯥ", "ꯨ", "꯭", "U+FB1E", "﮲", "﮳", "﮴", "﮵", "﮶", "﮷", "﮸",
     "﮹", "﮺", "﮻", "﮼", "﮽", "﮾", "﮿", "﯀", "﯁", "﯂", "U+FE00", "U+FE01", "U+FE02", "U+FE03",
     "U+FE04", "U+FE05", "U+FE06", "U+FE07", "U+FE08", "U+FE09", "U+FE0A", "U+FE0B", "U+FE0C",
     "U+FE0D", "U+FE0E", "U+FE0F", "U+FE13", "U+FE20", "U+FE21", "U+FE22", "U+FE23", "U+FE24",
     "U+FE25", "U+FE26", "U+FE27", "U+FE28", "U+FE29", "U+FE2A", "U+FE2B", "U+FE2C", "U+FE2D",
     "U+FE2E", "U+FE2F", "U+FE52", "U+FE55", "﻿", "U+FF07", "U+FF0E", "U+FF1A", "U+FF3E",
     "U+FF40", "U+FF70", "ﾞ", "ﾟ", "￣", "￹", "￺", "￻", "U+101FD", "U+102E0", "U+10376",
     "U+10377", "U+10378", "U+10379", "U+1037A", "U+10780", "U+10781", "U+10782", "U+10783",
     "U+10784", "U+10785", "U+10787", "U+10788", "U+10789", "U+1078A", "U+1078B", "U+1078C",
     "U+1078D", "U+1078E", "U+1078F", "U+10790", "U+10791", "U+10792", "U+10793", "U+10794",
     "U+10795", "U+10796", "U+10797", "U+10798", "U+10799", "U+1079A", "U+1079B", "U+1079C",
     "U+1079D", "U+1079E", "U+1079F", "U+107A0", "U+107A1", "U+107A2", "U+107A3", "U+107A4",
     "U+107A5", "U+107A6", "U+107A7", "U+107A8", "U+107A9", "U+107AA", "U+107AB", "U+107AC",
     "U+107AD", "U+107AE", "U+107AF", "U+107B0", "U+107B2", "U+107B3", "U+107B4", "U+107B5",
     "U+107B6", "U+107B7", "U+107B8", "U+107B9", "U+107BA", "U+10A01", "U+10A02", "U+10A03",
     "U+10A05", "U+10A06", "U+10A0C", "U+10A0D", "U+10A0E", "U+10A0F", "U+10A38", "U+10A39",
     "U+10A3A", "U+10A3F", "U+10AE5", "U+10AE6", "U+10D24", "U+10D25", "U+10D26", "U+10D27",
     "U+10EAB", "U+10EAC", "U+10F46", "U+10F47", "U+10F48", "U+10F49", "U+10F4A", "U+10F4B",
     "U+10F4C", "U+10F4D", "U+10F4E", "U+10F4F", "U+10F50", "U+10F82", "U+10F83", "U+10F84",
     "U+10F85", "U+11001", "U+11038", "U+11039", "U+1103A", "U+1103B", "U+1103C", "U+1103D",
     "U+1103E", "U+1103F", "U+11040", "U+11041", "U+11042", "U+11043", "U+11044", "U+11045",
     "U+11046", "U+11070", "U+11073", "U+11074", "U+1107F", "U+11080", "U+11081", "U+110B3",
     "U+110B4", "U+110B5", "U+110B6", "U+110B9", "U+110BA", "U+110BD", "U+110C2", "U+110CD",
     "U+11100", "U+11101", "U+11102", "U+11127", "U+11128", "U+11129", "U+1112A", "U+1112B",
     "U+1112D", "U+1112E", "U+1112F", "U+11130", "U+11131", "U+11132", "U+11133", "U+11134",
     "U+11173", "U+11180", "U+11181", "U+111B6", "U+111B7", "U+111B8", "U+111B9", "U+111BA",
     "U+111BB", "U+111BC", "U+111BD", "U+111BE", "U+111C9", "U+111CA", "U+111CB", "U+111CC",
     "U+111CF", "U+1122F", "U+11230", "U+11231", "U+11234", "U+11236", "U+11237", "U+1123E",
     "U+112DF", "U+112E3", "U+112E4", "U+112E5", "U+112E6", "U+112E7", "U+112E8", "U+112E9",
     "U+112EA", "U+11300", "U+11301", "U+1133B", "U+1133C", "U+11340", "U+11366", "U+11367",
     "U+11368", "U+11369", "U+1136A", "U+1136B", "U+1136C", "U+11370", "U+11371", "U+11372",
     "U+11373", "U+11374", "U+11438", "U+11439", "U+1143A", "U+1143B", "U+1143C", "U+1143D",
     "U+1143E", "U+1143F", "U+11442", "U+11443", "U+11444", "U+11446", "U+1145E", "U+114B3",
     "U+114B4", "U+114B5", "U+114B6", "U+114B7", "U+114B8", "U+114BA", "U+114BF", "U+114C0",
     "U+114C2", "U+114C3", "U+115B2", "U+115B3", "U+115B4", "U+115B5", "U+115BC", "U+115BD",
     "U+115BF", "U+115C0", "U+115DC", "U+115DD", "U+11633", "U+11634", "U+11635", "U+11636",
     "U+11637", "U+11638", "U+11639", "U+1163A", "U+1163D", "U+1163F", "U+11640", "U+116AB",
     "U+116AD", "U+116B0", "U+116B1", "U+116B2", "U+116B3", "U+116B4", "U+116B5", "U+116B7",
     "U+1171D", "U+1171E", "U+1171F", "U+11722", "U+11723", "U+11724", "U+11725", "U+11727",
     "U+11728", "U+11729", "U+1172A", "U+1172B", "U+1182F", "U+11830", "U+11831", "U+11832",
     "U+11833", "U+11834", "U+11835", "U+11836", "U+11837", "U+11839", "U+1183A", "U+1193B",
     "U+1193C", "U+1193E", "U+11943", "U+119D4", "U+119D5", "U+119D6", "U+119D7", "U+119DA",
     "U+119DB", "U+119E0", "U+11A01", "U+11A02", "U+11A03", "U+11A04", "U+11A05", "U+11A06",
     "U+11A07", "U+11A08", "U+11A09", "U+11A0A", "U+11A33", "U+11A34", "U+11A35", "U+11A36",
     "U+11A37", "U+11A38", "U+11A3B", "U+11A3C", "U+11A3D", "U+11A3E", "U+11A47", "U+11A51",
     "U+11A52", "U+11A53", "U+11A54", "U+11A55", "U+11A56", "U+11A59", "U+11A5A", "U+11A5B",
     "U+11A8A", "U+11A8B", "U+11A8C", "U+11A8D", "U+11A8E", "U+11A8F", "U+11A90", "U+11A91",
     "U+11A92", "U+11A93", "U+11A94", "U+11A95", "U+11A96", "U+11A98", "U+11A99", "U+11C30",
     "U+11C31", "U+11C32", "U+11C33", "U+11C34", "U+11C35", "U+11C36", "U+11C38", "U+11C39",
     "U+11C3A", "U+11C3B", "U+11C3C", "U+11C3D", "U+11C3F", "U+11C92", "U+11C93", "U+11C94",
     "U+11C95", "U+11C96", "U+11C97", "U+11C98", "U+11C99", "U+11C9A", "U+11C9B", "U+11C9C",
     "U+11C9D", "U+11C9E", "U+11C9F", "U+11CA0", "U+11CA1", "U+11CA2", "U+11CA3", "U+11CA4",
     "U+11CA5", "U+11CA6", "U+11CA7", "U+11CAA", "U+11CAB", "U+11CAC", "U+11CAD", "U+11CAE",
     "U+11CAF", "U+11CB0", "U+11CB2", "U+11CB3", "U+11CB5", "U+11CB6", "U+11D31", "U+11D32",
     "U+11D33", "U+11D34", "U+11D35", "U+11D36", "U+11D3A", "U+11D3C", "U+11D3D", "U+11D3F",
     "U+11D40", "U+11D41", "U+11D42", "U+11D43", "U+11D44", "U+11D45", "U+11D47", "U+11D90",
     "U+11D91", "U+11D95", "U+11D97", "U+11EF3", "U+11EF4", "U+13430", "U+13431", "U+13432",
     "U+13433", "U+13434", "U+13435", "U+13436", "U+13437", "U+13438", "U+16AF0", "U+16AF1",
     "U+16AF2", "U+16AF3", "U+16AF4", "U+16B30", "U+16B31", "U+16B32", "U+16B33", "U+16B34",
     "U+16B35", "U+16B36", "U+16B40", "U+16B41", "U+16B42", "U+16B43", "U+16F4F", "U+16F8F",
     "U+16F90", "U+16F91", "U+16F92", "U+16F93", "U+16F94", "U+16F95", "U+16F96", "U+16F97",
     "U+16F98", "U+16F99", "U+16F9A", "U+16F9B", "U+16F9C", "U+16F9D", "U+16F9E", "U+16F9F",
     "U+16FE0", "U+16FE1", "U+16FE3", "U+16FE4", "U+1AFF0", "U+1AFF1", "U+1AFF2", "U+1AFF3",
     "U+1AFF5", "U+1AFF6", "U+1AFF7", "U+1AFF8", "U+1AFF9", "U+1AFFA", "U+1AFFB", "U+1AFFD",
     "U+1AFFE", "U+1BC9D", "U+1BC9E", "U+1BCA0", "U+1BCA1", "U+1BCA2", "U+1BCA3", "U+1CF00",
     "U+1CF01", "U+1CF02", "U+1CF03", "U+1CF04", "U+1CF05", "U+1CF06", "U+1CF07", "U+1CF08",
     "U+1CF09", "U+1CF0A", "U+1CF0B", "U+1CF0C", "U+1CF0D", "U+1CF0E", "U+1CF0F", "U+1CF10",
     "U+1CF11", "U+1CF12", "U+1CF13", "U+1CF14", "U+1CF15", "U+1CF16", "U+1CF17", "U+1CF18",
     "U+1CF19", "U+1CF1A", "U+1CF1B", "U+1CF1C", "U+1CF1D", "U+1CF1E", "U+1CF1F", "U+1CF20",
     "U+1CF21", "U+1CF22", "U+1CF23", "U+1CF24", "U+1CF25", "U+1CF26", "U+1CF27", "U+1CF28",
     "U+1CF29", "U+1CF2A", "U+1CF2B", "U+1CF2C", "U+1CF2D", "U+1CF30", "U+1CF31", "U+1CF32",
     "U+1CF33", "U+1CF34", "U+1CF35", "U+1CF36", "U+1CF37", "U+1CF38", "U+1CF39", "U+1CF3A",
     "U+1CF3B", "U+1CF3C", "U+1CF3D", "U+1CF3E", "U+1CF3F", "U+1CF40", "U+1CF41", "U+1CF42",
     "U+1CF43", "U+1CF44", "U+1CF45", "U+1CF46", "U+1D167", "U+1D168", "U+1D169", "U+1D173",
     "U+1D174", "U+1D175", "U+1D176", "U+1D177", "U+1D178", "U+1D179", "U+1D17A", "U+1D17B",
     "U+1D17C", "U+1D17D", "U+1D17E", "U+1D17F", "U+1D180", "U+1D181", "U+1D182", "U+1D185",
     "U+1D186", "U+1D187", "U+1D188", "U+1D189", "U+1D18A", "U+1D18B", "U+1D1AA", "U+1D1AB",
     "U+1D1AC", "U+1D1AD", "U+1D242", "U+1D243", "U+1D244", "U+1DA00", "U+1DA01", "U+1DA02",
     "U+1DA03", "U+1DA04", "U+1DA05", "U+1DA06", "U+1DA07", "U+1DA08", "U+1DA09", "U+1DA0A",
     "U+1DA0B", "U+1DA0C", "U+1DA0D", "U+1DA0E", "U+1DA0F", "U+1DA10", "U+1DA11", "U+1DA12",
     "U+1DA13", "U+1DA14", "U+1DA15", "U+1DA16", "U+1DA17", "U+1DA18", "U+1DA19", "U+1DA1A",
     "U+1DA1B", "U+1DA1C", "U+1DA1D", "U+1DA1E", "U+1DA1F", "U+1DA20", "U+1DA21", "U+1DA22",
     "U+1DA23", "U+1DA24", "U+1DA25", "U+1DA26", "U+1DA27", "U+1DA28", "U+1DA29", "U+1DA2A",
     "U+1DA2B", "U+1DA2C", "U+1DA2D", "U+1DA2E", "U+1DA2F", "U+1DA30", "U+1DA31", "U+1DA32",
     "U+1DA33", "U+1DA34", "U+1DA35", "U+1DA36", "U+1DA3B", "U+1DA3C", "U+1DA3D", "U+1DA3E",
     "U+1DA3F", "U+1DA40", "U+1DA41", "U+1DA42", "U+1DA43", "U+1DA44", "U+1DA45", "U+1DA46",
     "U+1DA47", "U+1DA48", "U+1DA49", "U+1DA4A", "U+1DA4B", "U+1DA4C", "U+1DA4D", "U+1DA4E",
     "U+1DA4F", "U+1DA50", "U+1DA51", "U+1DA52", "U+1DA53", "U+1DA54", "U+1DA55", "U+1DA56",
     "U+1DA57", "U+1DA58", "U+1DA59", "U+1DA5A", "U+1DA5B", "U+1DA5C", "U+1DA5D", "U+1DA5E",
     "U+1DA5F", "U+1DA60", "U+1DA61", "U+1DA62", "U+1DA63", "U+1DA64", "U+1DA65", "U+1DA66",
     "U+1DA67", "U+1DA68", "U+1DA69", "U+1DA6A", "U+1DA6B", "U+1DA6C", "U+1DA75", "U+1DA84",
     "U+1DA9B", "U+1DA9C", "U+1DA9D", "U+1DA9E", "U+1DA9F", "U+1DAA1", "U+1DAA2", "U+1DAA3",
     "U+1DAA4", "U+1DAA5", "U+1DAA6", "U+1DAA7", "U+1DAA8", "U+1DAA9", "U+1DAAA", "U+1DAAB",
     "U+1DAAC", "U+1DAAD", "U+1DAAE", "U+1DAAF", "U+1E000", "U+1E001", "U+1E002", "U+1E003",
     "U+1E004", "U+1E005", "U+1E006", "U+1E008", "U+1E009", "U+1E00A", "U+1E00B", "U+1E00C",
     "U+1E00D", "U+1E00E", "U+1E00F", "U+1E010", "U+1E011", "U+1E012", "U+1E013", "U+1E014",
     "U+1E015", "U+1E016", "U+1E017", "U+1E018", "U+1E01B", "U+1E01C", "U+1E01D", "U+1E01E",
     "U+1E01F", "U+1E020", "U+1E021", "U+1E023", "U+1E024", "U+1E026", "U+1E027", "U+1E028",
     "U+1E029", "U+1E02A", "U+1E130", "U+1E131", "U+1E132", "U+1E133", "U+1E134", "U+1E135",
     "U+1E136", "U+1E137", "U+1E138", "U+1E139", "U+1E13A", "U+1E13B", "U+1E13C", "U+1E13D",
     "U+1E2AE", "U+1E2EC", "U+1E2ED", "U+1E2EE", "U+1E2EF", "U+1E8D0", "U+1E8D1", "U+1E8D2",
     "U+1E8D3", "U+1E8D4", "U+1E8D5", "U+1E8D6", "U+1E944", "U+1E945", "U+1E946", "U+1E947",
     "U+1E948", "U+1E949", "U+1E94A", "U+1E94B", "U+1F3FB", "U+1F3FC", "U+1F3FD", "U+1F3FE",
     "U+1F3FF", "U+E0001", "U+E0020", "U+E0021", "U+E0022", "U+E0023", "U+E0024", "U+E0025",
     "U+E0026", "U+E0027", "U+E0028", "U+E0029", "U+E002A", "U+E002B", "U+E002C", "U+E002D",
     "U+E002E", "U+E002F", "U+E0030", "U+E0031", "U+E0032", "U+E0033", "U+E0034", "U+E0035",
     "U+E0036", "U+E0037", "U+E0038", "U+E0039", "U+E003A", "U+E003B", "U+E003C", "U+E003D",
     "U+E003E", "U+E003F", "U+E0040", "U+E0041", "U+E0042", "U+E0043", "U+E0044", "U+E0045",
     "U+E0046", "U+E0047", "U+E0048", "U+E0049", "U+E004A", "U+E004B", "U+E004C", "U+E004D",
     "U+E004E", "U+E004F", "U+E0050", "U+E0051", "U+E0052", "U+E0053", "U+E0054", "U+E0055",
     "U+E0056", "U+E0057", "U+E0058", "U+E0059", "U+E005A", "U+E005B", "U+E005C", "U+E005D",
     "U+E005E", "U+E005F", "U+E0060", "U+E0061", "U+E0062", "U+E0063", "U+E0064", "U+E0065",
     "U+E0066", "U+E0067", "U+E0068", "U+E0069", "U+E006A", "U+E006B", "U+E006C", "U+E006D",
     "U+E006E", "U+E006F", "U+E0070", "U+E0071", "U+E0072", "U+E0073", "U+E0074", "U+E0075",
     "U+E0076", "U+E0077", "U+E0078", "U+E0079", "U+E007A", "U+E007B", "U+E007C", "U+E007D",
     "U+E007E", "U+E007F", "U+E0100", "U+E0101", "U+E0102", "U+E0103", "U+E0104", "U+E0105",
     "U+E0106", "U+E0107", "U+E0108", "U+E0109", "U+E010A", "U+E010B", "U+E010C", "U+E010D",
     "U+E010E", "U+E010F", "U+E0110", "U+E0111", "U+E0112", "U+E0113", "U+E0114", "U+E0115",
     "U+E0116", "U+E0117", "U+E0118", "U+E0119", "U+E011A", "U+E011B", "U+E011C", "U+E011D",
     "U+E011E", "U+E011F", "U+E0120", "U+E0121", "U+E0122", "U+E0123", "U+E0124", "U+E0125",
     "U+E0126", "U+E0127", "U+E0128", "U+E0129", "U+E012A", "U+E012B", "U+E012C", "U+E012D",
     "U+E012E", "U+E012F", "U+E0130", "U+E0131", "U+E0132", "U+E0133", "U+E0134", "U+E0135",
     "U+E0136", "U+E0137", "U+E0138", "U+E0139", "U+E013A", "U+E013B", "U+E013C", "U+E013D",
     "U+E013E", "U+E013F", "U+E0140", "U+E0141", "U+E0142", "U+E0143", "U+E0144", "U+E0145",
     "U+E0146", "U+E0147", "U+E0148", "U+E0149", "U+E014A", "U+E014B", "U+E014C", "U+E014D",
     "U+E014E", "U+E014F", "U+E0150", "U+E0151", "U+E0152", "U+E0153", "U+E0154", "U+E0155",
     "U+E0156", "U+E0157", "U+E0158", "U+E0159", "U+E015A", "U+E015B", "U+E015C", "U+E015D",
     "U+E015E", "U+E015F", "U+E0160", "U+E0161", "U+E0162", "U+E0163", "U+E0164", "U+E0165",
     "U+E0166", "U+E0167", "U+E0168", "U+E0169", "U+E016A", "U+E016B", "U+E016C", "U+E016D",
     "U+E016E", "U+E016F", "U+E0170", "U+E0171", "U+E0172", "U+E0173", "U+E0174", "U+E0175",
     "U+E0176", "U+E0177", "U+E0178", "U+E0179", "U+E017A", "U+E017B", "U+E017C", "U+E017D",
     "U+E017E", "U+E017F", "U+E0180", "U+E0181", "U+E0182", "U+E0183", "U+E0184", "U+E0185",
     "U+E0186", "U+E0187", "U+E0188", "U+E0189", "U+E018A", "U+E018B", "U+E018C", "U+E018D",
     "U+E018E", "U+E018F", "U+E0190", "U+E0191", "U+E0192", "U+E0193", "U+E0194", "U+E0195",
     "U+E0196", "U+E0197", "U+E0198", "U+E0199", "U+E019A", "U+E019B", "U+E019C", "U+E019D",
     "U+E019E", "U+E019F", "U+E01A0", "U+E01A1", "U+E01A2", "U+E01A3", "U+E01A4", "U+E01A5",
     "U+E01A6", "U+E01A7", "U+E01A8", "U+E01A9", "U+E01AA", "U+E01AB", "U+E01AC", "U+E01AD",
     "U+E01AE", "U+E01AF", "U+E01B0", "U+E01B1", "U+E01B2", "U+E01B3", "U+E01B4", "U+E01B5",
     "U+E01B6", "U+E01B7", "U+E01B8", "U+E01B9", "U+E01BA", "U+E01BB", "U+E01BC", "U+E01BD",
     "U+E01BE", "U+E01BF", "U+E01C0", "U+E01C1", "U+E01C2", "U+E01C3", "U+E01C4", "U+E01C5",
     "U+E01C6", "U+E01C7", "U+E01C8", "U+E01C9", "U+E01CA", "U+E01CB", "U+E01CC", "U+E01CD",
     "U+E01CE", "U+E01CF", "U+E01D0", "U+E01D1", "U+E01D2", "U+E01D3", "U+E01D4", "U+E01D5",
     "U+E01D6", "U+E01D7", "U+E01D8", "U+E01D9", "U+E01DA", "U+E01DB", "U+E01DC", "U+E01DD",
     "U+E01DE", "U+E01DF", "U+E01E0", "U+E01E1", "U+E01E2", "U+E01E3", "U+E01E4", "U+E01E5",
     "U+E01E6", "U+E01E7", "U+E01E8", "U+E01E9", "U+E01EA", "U+E01EB", "U+E01EC", "U+E01ED",
     "U+E01EE", "U+E01EF"}

\* re.IGNORECASE: the lowercase characters that match another one because
\* they share an uppercase (re._casefix) ...
CaseVariants ==
    <<"U+0131", "U+017F", "ι", "μ", "σ", "ϐ", "ϑ", "ϕ", "ϖ", "ϰ", "ϱ", "ϵ", "ᲀ", "ᲁ", "ᲂ", "ᲃ",
      "ᲄ", "ᲅ", "ᲆ", "ᲇ", "ẛ", "ι", "ΐ", "ΰ", "U+A64B", "U+FB06">>

\* ... and the first of the group of each.
CaseCanonical ==
    <<"i", "s", "U+0345", "µ", "ς", "β", "θ", "φ", "π", "κ", "ρ", "ε", "U+0432", "U+0434",
      "U+043E", "U+0441", "U+0442", "U+0442", "U+044A", "U+0463", "U+1E61", "U+0345", "ΐ", "ΰ",
      "ᲈ", "U+FB05">>

\* str.isascii(): the characters U+0000 to U+007F, in order.
AsciiCharacters ==
    <<"U+0000", "", "", "", "", "", "", "", "", "\t", "\n", "", "\f", "\r", "", "",
      "", "", "", "", "", "", "", "", "", "", "", "", "", "", "", "", " ", "!",
      "\"", "#", "$", "%", "&", "'", "(", ")", "*", "+", ",", "-", ".", "/", "0", "1", "2",
      "3", "4", "5", "6", "7", "8", "9", ":", ";", "<", "=", ">", "?", "@", "A", "B", "C", "D",
      "E", "F", "G", "H", "I", "J", "K", "L", "M", "N", "O", "P", "Q", "R", "S", "T", "U", "V",
      "W", "X", "Y", "Z", "[", "\\", "]", "^", "_", "U+0060", "a", "b", "c", "d", "e", "f",
      "g", "h", "i", "j", "k", "l", "m", "n", "o", "p", "q", "r", "s", "t", "u", "v", "w", "x",
      "y", "z", "{", "|", "}", "~", "">>

\* The characters whose compatibility form (NFKC) holds one of / ? # @ :
\* (urllib.parse._checknetloc).
NetlocLookalikes ==
    {"U+2047", "U+2048", "U+2049", "U+2100", "U+2101", "U+2105", "U+2106", "U+2A74", "U+FE13",
     "U+FE16", "U+FE55", "U+FE56", "U+FE5F", "U+FE6B", "U+FF03", "U+FF0F", "U+FF1A", "U+FF1F",
     "U+FF20"}

(***************************************************************************)
(* Strings                                                                 *)
(***************************************************************************)

\* The position of c in the sequence s.
IndexIn(s, c) == CHOOSE k \in 1..Len(s) : s[k] = c

Digits == {DecimalDigits[k] : k \in 1..Len(DecimalDigits)}

UpperSet == {UpperCharacters[k] : k \in 1..Len(UpperCharacters)}

\* str.lower() of one character taken alone.
LowerChar(c) ==
    IF c = "U+0130" THEN <<"i", "U+0307">>
    ELSE IF c \in UpperSet THEN <<LowerCharacters[IndexIn(UpperCharacters, c)]>>
    ELSE <<c>>

\* The nearest position before k (step -1) or after k (step 1) whose
\* character is not case-ignorable; 0 when there is none.
RECURSIVE NextNotIgnorable(_, _, _)
NextNotIgnorable(t, k, step) ==
    IF k + step < 1 \/ k + step > Len(t) THEN 0
    ELSE IF t[k + step] \in CaseIgnorable THEN NextNotIgnorable(t, k + step, step)
    ELSE k + step

\* The position k holds a cased character (0 is no position).
CasedAt(t, k) == k # 0 /\ t[k] \in CasedCharacters

\* The capital sigma at k ends a word: a cased character comes before it
\* and none after it, case-ignorable characters skipped.
FinalSigma(t, k) ==
    /\ CasedAt(t, NextNotIgnorable(t, k, -1))
    /\ ~CasedAt(t, NextNotIgnorable(t, k, 1))

\* str.lower() of the character at k of t.
LowerAt(t, k) ==
    IF t[k] = "Σ"
    THEN (IF FinalSigma(t, k) THEN <<"ς">> ELSE <<"σ">>)
    ELSE LowerChar(t[k])

RECURSIVE LowerFrom(_, _)
LowerFrom(t, k) == IF k > Len(t) THEN <<>> ELSE LowerAt(t, k) \o LowerFrom(t, k + 1)

\* str.lower()
Lower(t) == LowerFrom(t, 1)

\* t[p-1:].startswith(lit), p counted from 1.
StartsAt(t, p, lit) ==
    /\ p >= 1
    /\ p + Len(lit) - 1 <= Len(t)
    /\ \A k \in 1..Len(lit) : t[p + k - 1] = lit[k]

\* t.startswith(lit)
StartsWith(t, lit) == StartsAt(t, 1, lit)

\* t.endswith(lit)
EndsWith(t, lit) == Len(lit) <= Len(t) /\ StartsAt(t, Len(t) - Len(lit) + 1, lit)

\* lit in t
Contains(t, lit) == \E p \in 1..(Len(t) + 1) : StartsAt(t, p, lit)

\* t.find(lit) counted from 1; 0 when absent.
RECURSIVE FindFrom(_, _, _)
FindFrom(t, lit, p) ==
    IF p + Len(lit) - 1 > Len(t) THEN 0
    ELSE IF StartsAt(t, p, lit) THEN p
    ELSE FindFrom(t, lit, p + 1)

Find(t, lit) == FindFrom(t, lit, 1)

\* t.strip(): get_text(strip=True) of a single text node.
RECURSIVE LStrip(_)
LStrip(t) ==
    IF t # <<>> /\ Head(t) \in Whitespace THEN LStrip(Tail(t)) ELSE t

RECURSIVE RStrip(_)
RStrip(t) ==
    IF t # <<>> /\ t[Len(t)] \in Whitespace
    THEN RStrip(SubSeq(t, 1, Len(t) - 1))
    ELSE t

Strip(t) == RStrip(LStrip(t))

\* " ".join(t.split()): runs of whitespace become one space, the ends are
\* trimmed.
RECURSIVE JoinSplit(_, _)
JoinSplit(t, pending) ==
    IF t = <<>> THEN <<>>
    ELSE IF Head(t) \in Whitespace THEN JoinSplit(Tail(t), TRUE)
    ELSE (IF pending THEN <<" ", Head(t)>> ELSE <<Head(t)>>)
            \o JoinSplit(Tail(t), FALSE)

Normalize(t) == JoinSplit(LStrip(t), FALSE)

(***************************************************************************)
(* Regular expressions (module re, flag re.IGNORECASE)                     *)
(***************************************************************************)

NoMatch == [ok |-> FALSE, end |-> 0, cap |-> <<>>]

\* re.IGNORECASE lowers a character by itself (no second character for
\* U+0130) ...
ToLower(c) == IF c \in UpperSet THEN LowerCharacters[IndexIn(UpperCharacters, c)] ELSE c

FixedSet == {CaseVariants[k] : k \in 1..Len(CaseVariants)}

\* ... and takes the first of its group for it.
CaseFix(c) == IF c \in FixedSet THEN CaseCanonical[IndexIn(CaseVariants, c)] ELSE c

\* The characters that lowering or the fix changes.
CaseFolded == UpperSet \cup FixedSet

FoldChar(c) == IF c \in CaseFolded THEN CaseFix(ToLower(c)) ELSE c

\* A literal as the compiled pattern holds it under re.IGNORECASE: folded.
RECURSIVE Fold(_)
Fold(s) == IF s = <<>> THEN <<>> ELSE <<FoldChar(Head(s))>> \o Fold(Tail(s))

Lit(s)   == [k |-> "lit", s |-> Fold(s)]   \* literal text
Ws       == [k |-> "ws"]                   \* \s*
Num      == [k |-> "num"]                  \* (\d+(?:\.\d+)?), the group
Digs     == [k |-> "int"]                  \* \d+
Lazy     == [k |-> "lazy"]                 \* .*?
Opt(s)   == [k |-> "opt", s |-> Fold(s)]   \* (?:s)? for a literal s
OneOf(cs) == [k |-> "set", cs |-> {FoldChar(c) : c \in cs}] \* [...]
NotAhead(s) == [k |-> "notahead", s |-> Fold(s)] \* (?!.*s)
Alt(ps)  == [k |-> "alt", ps |-> ps]       \* (?:p1|p2|...)


\* Literal comparison under re.IGNORECASE.
LitAt(t, p, lit) ==
    /\ p + Len(lit) - 1 <= Len(t)
    /\ \A k \in 1..Len(lit) :
          \/ t[p + k - 1] = lit[k]
          \/ (t[p + k - 1] \in CaseFolded /\ FoldChar(t[p + k - 1]) = lit[k])

\* Number of consecutive characters of t from position p that are in cs.
RECURSIVE Run(_, _, _)
Run(t, p, cs) ==
    IF p <= Len(t) /\ t[p] \in cs THEN 1 + Run(t, p + 1, cs) ELSE 0

\* from, from-1, ..., to (greedy order)
RECURSIVE Down(_, _)
Down(from, to) == IF from < to THEN <<>> ELSE <<from>> \o Down(from - 1, to)

\* from, from+1, ..., to (lazy order)
RECURSIVE Up(_, _)
Up(from, to) == IF from > to THEN <<>> ELSE <<from>> \o Up(from + 1, to)

\* The ends of \d+(?:\.\d+)? started at p, in the order the backtracking
\* matcher tries them: all digits with the longest fraction first, then
\* shorter fractions, then no fraction, then fewer digits.
NumEnds(t, p) ==
    LET n == Run(t, p, Digits)
        m == IF p + n <= Len(t) /\ t[p + n] = "."
             THEN Run(t, p + n + 1, Digits) ELSE 0
    IN  IF n = 0 THEN <<>>
        ELSE [k \in 1..m |-> p + n + 1 + (m - k + 1)] \o Down(p + n, p + 1)

RECURSIVE MatchHere(_, _, _, _)
RECURSIVE TryEnds(_, _, _, _, _, _)
RECURSIVE TryAlts(_, _, _, _, _)

\* The first of `ends` from which `rest` matches; with `group`, the text
\* between p and that end becomes the captured group.
TryEnds(rest, t, p, ends, cap, group) ==
    IF ends = <<>> THEN NoMatch
    ELSE LET r == MatchHere(rest, t, Head(ends),
                            IF group THEN SubSeq(t, p, Head(ends) - 1) ELSE cap)
         IN  IF r.ok THEN r ELSE TryEnds(rest, t, p, Tail(ends), cap, group)

\* The first alternative that, followed by `rest`, matches at p.
TryAlts(alts, rest, t, p, cap) ==
    IF alts = <<>> THEN NoMatch
    ELSE LET r == MatchHere(Head(alts) \o rest, t, p, cap)
         IN  IF r.ok THEN r ELSE TryAlts(Tail(alts), rest, t, p, cap)

\* The ends a repetition item started at p may have, in the order the
\* backtracking matcher tries them.
ItemEnds(it, t, p) ==
    CASE it.k = "opt" -> IF LitAt(t, p, it.s) THEN <<p + Len(it.s), p>> ELSE <<p>>
      [] it.k = "ws" -> Down(p + Run(t, p, Whitespace), p)
      [] it.k = "int" -> Down(p + Run(t, p, Digits), p + 1)
      [] it.k = "num" -> NumEnds(t, p)
      [] it.k = "lazy" -> Up(p, p + Run(t, p, {t[q] : q \in 1..Len(t)} \ {"\n"}))

\* Whether the one-position item matches at p, and the length it takes.
ItemLength(it, t, p) ==
    CASE it.k = "lit" -> IF LitAt(t, p, it.s) THEN Len(it.s) ELSE -1
      [] it.k = "set" ->
            IF p <= Len(t) /\ (t[p] \in it.cs \/ FoldChar(t[p]) \in it.cs) THEN 1 ELSE -1
      [] it.k = "notahead" ->
            IF \E q \in p..(Len(t) + 1) :
                  /\ LitAt(t, q, it.s)
                  /\ \A r \in p..(q - 1) : t[r] # "\n"
            THEN -1 ELSE 0

\* re.match of pattern `pat` on t[p-1:]: the match the backtracking matcher
\* finds first, with its end and group(1).
MatchHere(pat, t, p, cap) ==
    IF pat = <<>> THEN [ok |-> TRUE, end |-> p, cap |-> cap]
    ELSE IF Head(pat).k = "alt" THEN TryAlts(Head(pat).ps, Tail(pat), t, p, cap)
    ELSE IF Head(pat).k \in {"lit", "set", "notahead"}
    THEN (IF ItemLength(Head(pat), t, p) < 0 THEN NoMatch
          ELSE MatchHere(Tail(pat), t, p + ItemLength(Head(pat), t, p), cap))
    ELSE TryEnds(Tail(pat), t, p, ItemEnds(Head(pat), t, p), cap, Head(pat).k = "num")

\* re.search(pat, t[from-1:]): the leftmost match, NoMatch when none.
RECURSIVE SearchFrom(_, _, _)
SearchFrom(pat, t, from) ==
    IF from > Len(t) + 1 THEN NoMatch
    ELSE LET r == MatchHere(pat, t, from, <<>>)
         IN  IF r.ok THEN r ELSE SearchFrom(pat, t, from + 1)

\* re.search(pat, t, re.IGNORECASE)
Search(pat, t) == SearchFrom(pat, t, 1)

\* re.findall(pat, t) for a pattern with one group: the groups of the
\* non-overlapping matches, left to right.
RECURSIVE FindAllFrom(_, _, _)
RECURSIVE GroupThenRest(_, _, _)

GroupThenRest(pat, t, r) ==
    IF r.ok THEN <<r.cap>> \o FindAllFrom(pat, t, r.end) ELSE <<>>

FindAllFrom(pat, t, from) == GroupThenRest(pat, t, SearchFrom(pat, t, from))

FindAll(pat, t) == FindAllFrom(pat, t, 1)

\* The first pattern of the list that re.search finds in t (the for/break
\* loops over pattern lists); NoMatch when none does.
RECURSIVE FirstSearch(_, _)
FirstSearch(pats, t) ==
    IF pats = <<>> THEN NoMatch
    ELSE LET r == Search(Head(pats), t)
         IN  IF r.ok THEN r ELSE FirstSearch(Tail(pats), t)

(***************************************************************************)
(* Dicts: a dict is the sequence of its <<key, value>> items in insertion  *)
(* order.                                                                  *)
(***************************************************************************)

\* list(d.keys())
Keys(d) == [k \in 1..Len(d) |-> d[k][1]]

\* Whether the item of a dict has the key.
HasKey(key, item) == Head(item) = key

\* d[key]: the value of the item with the key, for a dict that has the key.
RECURSIVE Get(_, _)
Get(d, key) ==
    IF HasKey(key, Head(d)) THEN Head(Tail(Head(d))) ELSE Get(Tail(d), key)

\* d.get(key, default): the value of the item with the key, or the default
\* when the dict has no such item.
RECURSIVE GetOr(_, _, _)
GetOr(d, key, default) ==
    IF d = <<>> THEN default
    ELSE IF HasKey(key, Head(d)) THEN Head(Tail(Head(d)))
    ELSE GetOr(Tail(d), key, default)

(***************************************************************************)
(* Sentinels and number formatting                                         *)
(***************************************************************************)

NA == <<"N","/","A">>

Error == <<"E","r","r","o","r">>

Success == <<"S","u","c","c","e","s","s">>

Rupee == <<"₹">>

\* The value of a decimal digit of any script.
DigitValue(c) == (IndexIn(DecimalDigits, c) - 1) % 10

DigitChar(d) == DecimalDigits[d + 1]

\* A natural number is the sequence of the values of its decimal digits,
\* the highest first and not 0; <<>> is zero.  (float() reads amounts of any
\* length, more than a machine integer holds.)
RECURSIVE Trim(_)
Trim(n) == IF n # <<>> /\ Head(n) = 0 THEN Trim(Tail(n)) ELSE n

\* The number a string of digits writes.
DigitValues(ds) == Trim([k \in 1..Len(ds) |-> DigitValue(ds[k])])

\* str(n)
DigitChars(n) == IF n = <<>> THEN <<"0">> ELSE [k \in 1..Len(n) |-> DigitChar(n[k])]

\* a < b
Less(a, b) ==
    \/ Len(a) < Len(b)
    \/ /\ Len(a) = Len(b)
       /\ \E k \in 1..Len(a) : a[k] < b[k] /\ \A j \in 1..(k - 1) : a[j] = b[j]

\* n * m + carry, for a small m.
RECURSIVE Times(_, _, _)
Times(n, m, carry) ==
    IF n = <<>>
    THEN (IF carry = 0 THEN <<>> ELSE Times(<<>>, m, carry \div 10) \o <<carry % 10>>)
    ELSE Times(SubSeq(n, 1, Len(n) - 1), m, (n[Len(n)] * m + carry) \div 10)
            \o <<(n[Len(n)] * m + carry) % 10>>

\* n * 2: a digit doubles and takes the carry of the digit after it.
Double(n) ==
    Trim([k \in 1..(Len(n) + 1) |->
            ((IF k = 1 THEN 0 ELSE 2 * n[k - 1]) + (IF k <= Len(n) /\ n[k] >= 5 THEN 1 ELSE 0)) % 10])

\* n * 2^k, by 2^8 while k allows it.
RECURSIVE TimesTwoTo(_, _)
TimesTwoTo(n, k) ==
    IF k = 0 \/ n = <<>> THEN n
    ELSE IF k >= 8 THEN TimesTwoTo(Times(n, 256, 0), k - 8)
    ELSE TimesTwoTo(Double(n), k - 1)

Odd(n) == n # <<>> /\ n[Len(n)] % 2 = 1

\* n \div 2: a digit is halved with the remainder of the digit before it.
Half(n) == Trim([k \in 1..Len(n) |-> ((IF k = 1 THEN 0 ELSE 10 * (n[k - 1] % 2)) + n[k]) \div 2])

\* n \div m (with zeros before it) and n % m, for a small m.
RECURSIVE DivMod(_, _)
DivMod(n, m) ==
    IF n = <<>> THEN [q |-> <<>>, r |-> 0]
    ELSE LET d == DivMod(SubSeq(n, 1, Len(n) - 1), m)
         IN  [q |-> d.q \o <<(10 * d.r + n[Len(n)]) \div m>>,
              r |-> (10 * d.r + n[Len(n)]) % m]

\* n \div 2^k, with the last bit shifted out (b) and whether a bit before
\* it was set (s): what rounding to nearest needs.  Eight bits are shifted
\* at a time while k allows it: d is n over 2^8 and the eight bits.
RECURSIVE Shifted(_, _, _, _)
RECURSIVE ShiftedByEight(_, _, _, _)
Shifted(n, k, b, s) ==
    IF k = 0 THEN [q |-> n, b |-> b, s |-> s]
    ELSE IF n = <<>> THEN [q |-> n, b |-> FALSE, s |-> s \/ b]
    ELSE IF k >= 8 THEN ShiftedByEight(DivMod(n, 256), k, b, s)
    ELSE Shifted(Half(n), k - 1, Odd(n), s \/ b)

ShiftedByEight(d, k, b, s) ==
    Shifted(Trim(d.q), k - 8, d.r >= 128, s \/ b \/ d.r % 128 # 0)

\* Round to nearest, a tie to even.
Nearest(r) == IF r.b /\ (r.s \/ Odd(r.q)) THEN Times(r.q, 1, 1) ELSE r.q

\* n / 2^k to the nearest integer (s: something was dropped from n before).
RoundShift(n, k, s) == Nearest(Shifted(n, k, FALSE, s))

\* n / 10^f to the nearest integer, for n of more than f digits.
RoundDecimal(n, f) ==
    Nearest([q |-> SubSeq(n, 1, Len(n) - f),
             b |-> n[Len(n) - f + 1] >= 5,
             s |-> \/ n[Len(n) - f + 1] # 5
                   \/ \E k \in (Len(n) - f + 2)..Len(n) : n[k] # 0])

\* 2^52 and 2^53: a double has 53 significant bits.
TwoTo52 == <<4,5,0,3,5,9,9,6,2,7,3,7,0,4,9,6>>

TwoTo53 == <<9,0,0,7,1,9,9,2,5,4,7,4,0,9,9,2>>

Zeros(f) == [k \in 1..f |-> 0]

\* How often n is doubled to reach p: eight times more when 2^7 * n is
\* still under p.
RECURSIVE Doublings(_, _)
Doublings(n, p) ==
    IF Less(Times(n, 128, 0), p) THEN 8 + Doublings(Times(n, 256, 0), p)
    ELSE IF Less(n, p) THEN 1 + Doublings(Double(n), p)
    ELSE 0

\* How often n is halved to come under 2^53.
RECURSIVE Halvings(_)
Halvings(n) == IF Less(n, TwoTo53) THEN 0 ELSE 1 + Halvings(Half(n))

\* value.split('.')[1] for a value (\d+(?:\.\d+)?) holding a '.'
FractionDigits(value) == SubSeq(value, Find(value, <<".">>) + 1, Len(value))

IntegerDigits(value) == SubSeq(value, 1, Find(value, <<".">>) - 1)

\* h hundredths written with two decimals.
Hundredths(h) ==
    IF Len(h) < 3 THEN <<"0", ".">> \o DigitChars(Zeros(2 - Len(h)) \o h)
    ELSE DigitChars(SubSeq(h, 1, Len(h) - 2)) \o <<".">>
            \o [k \in 1..2 |-> DigitChar(h[Len(h) - 2 + k])]

\* f"{d:.2f}" of the double d = m / 2^k, m of 53 bits at most and k >= 0:
\* the hundredths nearest to d.
FormatFraction(m, k) == Hundredths(RoundShift(m \o <<0, 0>>, k, FALSE))

\* f"{d:.2f}" of the double d = m * 2^j: the integer, or 'inf' from 2^1024
\* on.
FormatInteger(m, j) ==
    IF j > 971 \/ (j = 971 /\ m = TwoTo53) THEN <<"i","n","f">>
    ELSE DigitChars(TimesTwoTo(m, j)) \o <<".", "0", "0">>

\* f"{float(value):.2f}" for the value whose integer part is n, under 2^53:
\* nf is the value without its point, f the length of its fraction.  The
\* double is nf * 2^k / 10^f rounded to the nearest integer, over 2^k, for
\* the k that leaves 53 bits.
FormatSmall(nf, f, k) == FormatFraction(RoundDecimal(TimesTwoTo(nf, k), f), k)

\* The same for an integer part n of 2^53 or more, halved j times to 53
\* bits.
FormatLarge(n, fraction, j) ==
    FormatInteger(RoundShift(n, j, fraction # <<>>), j)

\* f"{float(value):.2f}" for the integer part and the fraction of the value.
\* float() gives the double nearest to the decimal number, and the format
\* rounds that double, which is not the decimal number when the two fall
\* on different sides of a half hundredth.  (An amount under 0.001 is a
\* double under 0.005.)
FormatDouble(n, fraction) ==
    IF n = <<>> /\ \A k \in 1..3 : DigitValue(fraction[k]) = 0
    THEN <<"0", ".", "0", "0">>
    ELSE IF Less(n, TwoTo53)
    THEN FormatSmall(Trim(n \o [k \in 1..Len(fraction) |-> DigitValue(fraction[k])]),
                     Len(fraction),
                     Doublings(Trim(n \o [k \in 1..Len(fraction) |-> DigitValue(fraction[k])]),
                               TwoTo52 \o Zeros(Len(fraction))))
    ELSE FormatLarge(n, DigitValues(fraction), Halvings(n))

\* f"{float(value):.2f}" for a value with more than two fractional digits.
Format2f(value) == FormatDouble(DigitValues(IntegerDigits(value)), FractionDigits(value))


(***************************************************************************)
(* parse_price_info                                                        *)
(***************************************************************************)

mrp_patterns ==
    << <<Lit(<<"M","R","P">>), Ws, Lit(<<"₹">>), Ws, Num>>,
       <<Lit(<<"M","R","P">>), Ws, Lit(<<"R","s">>), Opt(<<".">>), Ws, Num>>,
       <<Lit(<<"M","a","x","i","m","u","m"," ","R","e","t","a","i","l"," ","P","r","i","c","e">>), Ws, Lit(<<"₹">>), Ws, Num>> >>

discounted_patterns ==
    << <<Lit(<<"D","i","s","c","o","u","n","t","e","d"," ","P","r","i","c","e",":">>), Ws, Lit(<<"₹">>), Ws, Num>>,
       <<Lit(<<"O","f","f","e","r"," ","P","r","i","c","e",":">>), Ws, Lit(<<"₹">>), Ws, Num>>,
       <<Lit(<<"B","e","s","t"," ","P","r","i","c","e",":">>), Ws, Lit(<<"₹">>), Ws, Num>>,
       <<Lit(<<"F","i","n","a","l"," ","P","r","i","c","e",":">>), Ws, Lit(<<"₹">>), Ws, Num>>,
       <<Lit(<<"₹">>), Ws, Num, Ws, Lit(<<"(">>), Lazy, Lit(<<"o","f","f">>), Lazy, Lit(<<")">>)>>,
       <<Lit(<<"₹">>), Ws, Num, Ws, Lit(<<"a","f","t","e","r">>), Lazy, Lit(<<"d","i","s","c","o","u","n","t">>)>> >>

\* r'₹\s*(\d+(?:\.\d+)?)'
rupee_amount == <<Lit(<<"₹">>), Ws, Num>>

\* Lines 304-305: the decimal clean-up applied to a matched MRP value.
CleanDecimals(value) ==
    IF Contains(value, <<".">>) /\ Len(FractionDigits(value)) > 2
    THEN Format2f(value)
    ELSE value

\* Lines 301-306: the mrp a match of an MRP pattern gives.
MrpOf(match) == IF match.ok THEN Rupee \o CleanDecimals(match.cap) ELSE NA

\* Lines 321-322 (and 452-454 ...): the price a match gives.
PriceOf(match) == IF match.ok THEN Rupee \o match.cap ELSE NA

\* Lines 299-307: the MRP found by the first matching labelled pattern.
LabelledMrp(text) == MrpOf(FirstSearch(mrp_patterns, text))

\* Lines 319-323: the discounted price found by the first matching
\* labelled pattern.
LabelledDiscount(text) == PriceOf(FirstSearch(discounted_patterns, text))

\* Lines 328-332: with two amounts or more, the first fills a missing mrp
\* and the second a missing discounted price.
FillFromAmounts(p, prices) ==
    IF Len(prices) >= 2
    THEN [mrp |-> IF p.mrp = NA THEN Rupee \o prices[1] ELSE p.mrp,
          discounted_price |->
             IF p.discounted_price = NA THEN Rupee \o prices[2]
             ELSE p.discounted_price]
    ELSE p

\* The positional rule as it would be if it waited for both labelled
\* searches to fail.
PositionalWhenBothMissing(text, p) ==
    IF /\ p.mrp = NA
       /\ p.discounted_price = NA
       /\ Contains(text, <<"M","R","P">>)
       /\ Contains(text, <<"₹">>)
    THEN FillFromAmounts(p, FindAll(rupee_amount, text))
    ELSE p

\* Lines 325-332: the positional rule, for a text with 'MRP' and '₹' in it.
PositionalPrices(text, p) ==
    IF Contains(text, <<"M","R","P">>) /\ Contains(text, <<"₹">>)
    THEN FillFromAmounts(p, FindAll(rupee_amount, text))
    ELSE p

\* Lines 334-338 as they would be with nothing copied.
NoMirror(p) == p

\* Lines 334-338: one price found is used for both.
MirrorPrices(p) ==
    IF p.discounted_price = NA /\ p.mrp # NA
    THEN [p EXCEPT !.discounted_price = p.mrp]
    ELSE IF p.mrp = NA /\ p.discounted_price # NA
    THEN [p EXCEPT !.mrp = p.discounted_price]
    ELSE p

\* Lines 340-343: the dict returned.
PriceDict(p) == << <<"mrp", p.mrp>>, <<"discounted_price", p.discounted_price>> >>

\* Lines 289-343, on the text with its whitespace normalized.
ParseNormalized(text) ==
    PriceDict(MirrorPrices(PositionalPrices(text,
        [mrp |-> LabelledMrp(text), discounted_price |-> LabelledDiscount(text)])))

parse_price_info(price_text0) == ParseNormalized(Normalize(price_text0))

(***************************************************************************)
(* clean_price_text                                                        *)
(***************************************************************************)

\* r'Discounted Price:\s*(\d+(?:\.\d+)?)'
discounted_no_symbol == <<Lit(<<"D","i","s","c","o","u","n","t","e","d"," ","P","r","i","c","e",":">>), Ws, Num>>

\* r'MRP.*?₹\s*(\d+(?:\.\d+)?)'
mrp_then_amount == <<Lit(<<"M","R","P">>), Lazy, Lit(<<"₹">>), Ws, Num>>

\* r'(?:after|off|discount|offer).*?₹\s*(\d+(?:\.\d+)?)'
amount_after_keyword ==
    <<Alt(<< <<Lit(<<"a","f","t","e","r">>)>>, <<Lit(<<"o","f","f">>)>>, <<Lit(<<"d","i","s","c","o","u","n","t">>)>>, <<Lit(<<"o","f","f","e","r">>)>> >>),
      Lazy, Lit(<<"₹">>), Ws, Num>>

non_mrp_patterns ==
    << <<Lit(<<"₹">>), Ws, Num, NotAhead(<<"M","R","P">>)>>,
       <<Lit(<<"R","s">>), Opt(<<".">>), Ws, Num, NotAhead(<<"M","R","P">>)>>,
       <<Lit(<<"I","N","R">>), Ws, Num, NotAhead(<<"M","R","P">>)>> >>

\* r'[₹Rs]\.?\s*(\d+(?:\.\d+)?)'
any_currency == <<OneOf({"₹", "R", "s"}), Opt(<<".">>), Ws, Num>>

\* x unless it is None, else y.
Else(x, y) == IF x # None THEN x ELSE y

\* The price a match gives, None without a match.
Matched(match) == IF match.ok THEN Rupee \o match.cap ELSE None

\* Lines 467-477: two amounts or more give the second; one amount that
\* follows MRP gives the first amount after a discount keyword.
SecondOfAmounts(text, prices) ==
    IF Len(prices) >= 2 THEN Rupee \o prices[2]
    ELSE IF Len(prices) = 1 /\ Search(mrp_then_amount, text).ok
    THEN Matched(Search(amount_after_keyword, text))
    ELSE None

\* Lines 463-477: the branch of a text with 'MRP' and '₹' in it.
SecondPrice(text) ==
    IF Contains(text, <<"M","R","P">>) /\ Contains(text, <<"₹">>)
    THEN SecondOfAmounts(text, FindAll(rupee_amount, text))
    ELSE None

\* Lines 456-461
DiscountWithoutSymbol(text) ==
    IF Contains(text, <<"D","i","s","c","o","u","n","t","e","d"," ","P","r","i","c","e",":">>)
    THEN Matched(Search(discounted_no_symbol, text))
    ELSE None

\* Lines 498-502
ShortCurrencyText(text) ==
    IF Len(text) < 20 /\ (Contains(text, <<"₹">>) \/ Contains(text, <<"R","s">>))
    THEN text
    ELSE NA

\* Lines 440-502, on the text with its whitespace normalized: the first
\* step that returns.
CleanNormalized(text) ==
    Else(Matched(FirstSearch(discounted_patterns, text)),
    Else(DiscountWithoutSymbol(text),
    Else(SecondPrice(text),
    Else(Matched(FirstSearch(non_mrp_patterns, text)),
    Else(Matched(Search(any_currency, text)),
         ShortCurrencyText(text))))))

clean_price_text(price_text0) == CleanNormalized(Normalize(price_text0))

(***************************************************************************)
(* The parsed document (BeautifulSoup) and CSS selection (select_one)      *)
(*                                                                         *)
(* A document is [nodes, jsonld, og_image]. nodes lists the tags in        *)
(* document order, each [tag, cls, attrs, text, parent]: cls is the class  *)
(* attribute ("" when absent), attrs maps the other attribute names to     *)
(* their values, text is the tag's own text node and parent is the position*)
(* of the enclosing tag (0 at the top). jsonld lists the                   *)
(* <script type="application/ld+json"> contents as json.loads sees them,   *)
(* og_image is the content of <meta property="og:image"> or None.          *)
(***************************************************************************)

\* s.split(" ") of a class attribute: its class names.
RECURSIVE ClassTokens(_)
ClassTokens(s) ==
    LET sp == Find(s, <<" ">>)
    IN  IF s = <<>> THEN {}
        ELSE IF sp = 0 THEN {s}
        ELSE (IF sp = 1 THEN {} ELSE {SubSeq(s, 1, sp - 1)})
                \cup ClassTokens(SubSeq(s, sp + 1, Len(s)))

\* tag.get(name): None when the attribute is absent.
GetAttr(node, name) ==
    IF name = <<"c","l","a","s","s">> THEN (IF node.cls = <<>> THEN None ELSE node.cls)
    ELSE IF name \in DOMAIN node.attrs THEN node.attrs[name]
    ELSE None

\* A compound selector  tag.class[attr*='value'], every part optional.
ParseCompound(s) ==
    LET lb == Find(s, <<"[">>)
        head == IF lb = 0 THEN s ELSE SubSeq(s, 1, lb - 1)
        inner == IF lb = 0 THEN <<>> ELSE SubSeq(s, lb + 1, Len(s) - 1)
        dot == Find(head, <<".">>)
        op == Find(inner, <<"*","=">>)
    IN  [tag |-> IF dot = 0 THEN head ELSE SubSeq(head, 1, dot - 1),
         cls |-> IF dot = 0 THEN <<>> ELSE SubSeq(head, dot + 1, Len(head)),
         attr |-> IF lb = 0 THEN <<>> ELSE SubSeq(inner, 1, op - 1),
         sub |-> IF lb = 0 THEN <<>> ELSE SubSeq(inner, op + 3, Len(inner) - 1)]

MatchesCompound(node, c) ==
    /\ c.tag = <<>> \/ node.tag = c.tag
    /\ c.cls = <<>> \/ c.cls \in ClassTokens(node.cls)
    /\ c.attr = <<>> \/ (GetAttr(node, c.attr) # None /\ Contains(GetAttr(node, c.attr), c.sub))

\* The positions of the tags that enclose nodes[n].
RECURSIVE Ancestors(_, _)
Ancestors(nodes, n) ==
    IF nodes[n].parent = 0 THEN {}
    ELSE {nodes[n].parent} \cup Ancestors(nodes, nodes[n].parent)

\* A selector compiled: a compound, or "ancestor descendant" (the two
\* forms the selector lists use); any tells the second form, text is the
\* selector as written.
ParseSelector(text) ==
    LET sp == Find(text, <<" ">>)
    IN  IF sp = 0
        THEN [text |-> text, any |-> FALSE, anc |-> ParseCompound(<<>>),
              self |-> ParseCompound(text)]
        ELSE [text |-> text, any |-> TRUE,
              anc |-> ParseCompound(SubSeq(text, 1, sp - 1)),
              self |-> ParseCompound(SubSeq(text, sp + 1, Len(text)))]

\* A selector list.  The library compiles a selector once and keeps what
\* it compiled, so a list holds its selectors compiled.
Selectors(texts) == [k \in 1..Len(texts) |-> ParseSelector(texts[k])] @@ <<>>

\* Whether nodes[n] matches the compiled selector.
Matches(nodes, n, compiled) ==
    /\ MatchesCompound(nodes[n], compiled.self)
    /\ compiled.any =>
          \E a \in Ancestors(nodes, n) : MatchesCompound(nodes[a], compiled.anc)

\* soup.select_one(selector): the position of the first matching tag in
\* document order, 0 (None) when there is none.
select_one(doc, selector) ==
    LET hits == {n \in 1..Len(doc.nodes) : Matches(doc.nodes, n, selector)}
    IN  IF hits = {} THEN 0 ELSE CHOOSE n \in hits : \A m \in hits : n <= m

\* element.get_text(strip=True): the stripped text nodes of the tag and of
\* the tags inside it, in document order, joined with nothing between.
RECURSIVE StrippedTexts(_, _, _)
StrippedTexts(nodes, n, k) ==
    IF k > Len(nodes) THEN <<>>
    ELSE (IF k = n \/ n \in Ancestors(nodes, k) THEN Strip(nodes[k].text) ELSE <<>>)
            \o StrippedTexts(nodes, n, k + 1)

get_text_strip(doc, n) == StrippedTexts(doc.nodes, n, 1)

\* soup.get_text(): every text node as it stands.
RECURSIVE AllTexts(_, _)
AllTexts(nodes, k) ==
    IF k > Len(nodes) THEN <<>> ELSE nodes[k].text \o AllTexts(nodes, k + 1)

get_text(doc) == AllTexts(doc.nodes, 1)

(***************************************************************************)
(* extract_field                                                           *)
(***************************************************************************)

\* Line 424: "price" in selector.lower() or "Price" in selector
IsPriceSelector(selector) ==
    Contains(Lower(selector.text), <<"p","r","i","c","e">>) \/ Contains(selector.text, <<"P","r","i","c","e">>)

\* Lines 427-429: the cleaned text is returned whatever it is (the return
\* of line 429 follows the one of line 428).
CleanedOrSame(text) == IF text # <<>> /\ text # NA THEN text ELSE text

\* Lines 423-429, for a non-empty text: a price selector returns the
\* cleaned text, any other selector the text itself.
FieldValue(selector, text) ==
    IF IsPriceSelector(selector) THEN CleanedOrSame(clean_price_text(text)) ELSE text

\* Line 422: an empty text goes on to the next selector (None).
FieldOfText(selector, text) ==
    IF text # <<>> THEN FieldValue(selector, text) ELSE None

\* Lines 420-421: so does a selector that matches no tag.
FieldOfElement(doc, selector, element) ==
    IF element # 0 THEN FieldOfText(selector, get_text_strip(doc, element)) ELSE None

\* extract_field as it would be with the empty string for its last return.
RECURSIVE EmptyWhenNothingFound(_, _)
EmptyWhenNothingFound(doc, sels) ==
    IF sels = <<>> THEN <<>>
    ELSE Else(FieldOfElement(doc, Head(sels), select_one(doc, Head(sels))),
              EmptyWhenNothingFound(doc, Tail(sels)))

RECURSIVE extract_field(_, _)
extract_field(doc, sels) ==
    IF sels = <<>> THEN NA
    ELSE Else(FieldOfElement(doc, Head(sels), select_one(doc, Head(sels))),
              extract_field(doc, Tail(sels)))
(***************************************************************************)
(* The selector lists                                                      *)
(***************************************************************************)

\* Lines 55-73: the selectors of the name.
name_selectors ==
    Selectors(
    << <<".","D","r","u","g","H","e","a","d","e","r","_","_","t","i","t","l","e">>,
       <<".","D","r","u","g","H","e","a","d","e","r","_","_","n","a","m","e">>,
       <<".","P","r","o","d","u","c","t","I","n","f","o","_","_","t","i","t","l","e">>,
       <<".","P","r","o","d","u","c","t","I","n","f","o","_","_","n","a","m","e">>,
       <<"h","1","[","c","l","a","s","s","*","=","'","D","r","u","g","H","e","a","d","e","r","'","]">>,
       <<"h","1","[","c","l","a","s","s","*","=","'","P","r","o","d","u","c","t","I","n","f","o","'","]">>,
       <<"h","1","[","c","l","a","s","s","*","=","'","t","i","t","l","e","'","]">>,
       <<"h","1","[","c","l","a","s","s","*","=","'","n","a","m","e","'","]">>,
       <<"h","1">>,
       <<".","s","t","y","l","e","_","_","p","r","o","d","u","c","t","-","n","a","m","e">>,
       <<".","m","e","d","i","c","i","n","e","-","n","a","m","e">>,
       <<".","d","r","u","g","-","n","a","m","e">>,
       <<".","p","r","o","d","u","c","t","-","t","i","t","l","e">>,
       <<"[","c","l","a","s","s","*","=","'","t","i","t","l","e","'","]">>,
       <<"[","c","l","a","s","s","*","=","'","n","a","m","e","'","]">> >>)

\* Lines 79-94: the selectors of the manufacturer.
manufacturer_selectors ==
    Selectors(
    << <<".","D","r","u","g","H","e","a","d","e","r","_","_","m","a","n","u","f","a","c","t","u","r","e","r">>,
       <<".","D","r","u","g","H","e","a","d","e","r","_","_","b","r","a","n","d","-","n","a","m","e">>,
       <<".","D","r","u","g","H","e","a","d","e","r","_","_","c","o","m","p","a","n","y">>,
       <<".","P","r","o","d","u","c","t","I","n","f","o","_","_","m","a","n","u","f","a","c","t","u","r","e","r">>,
       <<".","P","r","o","d","u","c","t","I","n","f","o","_","_","b","r","a","n","d">>,
       <<".","m","a","n","u","f","a","c","t","u","r","e","r">>,
       <<".","b","r","a","n","d","-","n","a","m","e">>,
       <<".","c","o","m","p","a","n","y","-","n","a","m","e">>,
       <<".","d","r","u","g","-","m","a","n","u","f","a","c","t","u","r","e","r">>,
       <<".","m","e","d","i","c","i","n","e","-","b","r","a","n","d">>,
       <<"[","c","l","a","s","s","*","=","'","m","a","n","u","f","a","c","t","u","r","e","r","'","]">>,
       <<"[","c","l","a","s","s","*","=","'","b","r","a","n","d","'","]">>,
       <<"[","c","l","a","s","s","*","=","'","c","o","m","p","a","n","y","'","]">> >>)

\* Lines 96-110: the selectors of the composition.
composition_selectors ==
    Selectors(
    << <<".","D","r","u","g","H","e","a","d","e","r","_","_","s","a","l","t","-","i","n","f","o">>,
       <<".","D","r","u","g","H","e","a","d","e","r","_","_","c","o","m","p","o","s","i","t","i","o","n">>,
       <<".","P","r","o","d","u","c","t","I","n","f","o","_","_","c","o","m","p","o","s","i","t","i","o","n">>,
       <<".","P","r","o","d","u","c","t","I","n","f","o","_","_","s","a","l","t">>,
       <<".","s","a","l","t","-","i","n","f","o">>,
       <<".","c","o","m","p","o","s","i","t","i","o","n">>,
       <<".","m","e","d","i","c","i","n","e","-","c","o","m","p","o","s","i","t","i","o","n">>,
       <<".","d","r","u","g","-","c","o","m","p","o","s","i","t","i","o","n">>,
       <<".","s","a","l","t","-","c","o","m","p","o","s","i","t","i","o","n">>,
       <<"[","c","l","a","s","s","*","=","'","s","a","l","t","'","]">>,
       <<"[","c","l","a","s","s","*","=","'","c","o","m","p","o","s","i","t","i","o","n","'","]">>,
       <<"[","c","l","a","s","s","*","=","'","i","n","g","r","e","d","i","e","n","t","'","]">> >>)

\* Lines 148-163
quantity_selectors ==
    Selectors(
    << <<".","D","r","u","g","H","e","a","d","e","r","_","_","p","a","c","k","-","s","i","z","e">>,
       <<".","D","r","u","g","H","e","a","d","e","r","_","_","q","u","a","n","t","i","t","y">>,
       <<".","P","r","o","d","u","c","t","I","n","f","o","_","_","p","a","c","k","-","s","i","z","e">>,
       <<".","P","r","o","d","u","c","t","I","n","f","o","_","_","q","u","a","n","t","i","t","y">>,
       <<".","p","a","c","k","-","s","i","z","e">>,
       <<".","q","u","a","n","t","i","t","y">>,
       <<".","t","a","b","l","e","t","-","c","o","u","n","t">>,
       <<".","s","t","r","i","p","-","c","o","u","n","t">>,
       <<"[","c","l","a","s","s","*","=","'","p","a","c","k","'","]">>,
       <<"[","c","l","a","s","s","*","=","'","q","u","a","n","t","i","t","y","'","]">>,
       <<"[","c","l","a","s","s","*","=","'","c","o","u","n","t","'","]">>,
       <<"[","c","l","a","s","s","*","=","'","s","i","z","e","'","]">> >>)

\* Lines 217-231
price_containers ==
    Selectors(
    << <<".","D","r","u","g","P","r","i","c","e","B","o","x">>,
       <<".","P","r","i","c","e","B","o","x">>,
       <<".","D","r","u","g","P","r","i","c","e">>,
       <<".","P","r","i","c","e","B","o","x","P","l","a","n","O","p","t","i","o","n">>,
       <<".","S","u","b","s","t","i","t","u","t","e","I","t","e","m","_","_","u","n","i","t","-","p","r","i","c","e","_","_","_","M","I","b","L","o">>,
       <<"[","c","l","a","s","s","*","=","'","p","r","i","c","e","'","]">>,
       <<"[","c","l","a","s","s","*","=","'","P","r","i","c","e","'","]">>,
       <<"[","c","l","a","s","s","*","=","'","c","o","s","t","'","]">>,
       <<".","p","r","i","c","e","-","d","i","s","p","l","a","y">>,
       <<".","p","r","i","c","e","-","c","o","n","t","a","i","n","e","r">>,
       <<".","p","r","i","c","i","n","g">> >>)

\* Lines 247-267
individual_selectors ==
    Selectors(
    << <<".","D","r","u","g","P","r","i","c","e","B","o","x","_","_","b","e","s","t","-","p","r","i","c","e","_","_","_","3","2","J","X","w">>,
       <<".","D","r","u","g","P","r","i","c","e","B","o","x","_","_","p","r","i","c","e">>,
       <<".","P","r","i","c","e","B","o","x","_","_","p","r","i","c","e">>,
       <<".","P","r","i","c","e","B","o","x","_","_","b","e","s","t","-","p","r","i","c","e">>,
       <<".","S","u","b","s","t","i","t","u","t","e","I","t","e","m","_","_","u","n","i","t","-","p","r","i","c","e","_","_","_","M","I","b","L","o">>,
       <<".","P","r","i","c","e","B","o","x","P","l","a","n","O","p","t","i","o","n","_","_","o","f","f","e","r","P","r","i","c","e">>,
       <<".","P","r","i","c","e","B","o","x","P","l","a","n","O","p","t","i","o","n","_","_","p","r","i","c","e">>,
       <<".","D","r","u","g","P","r","i","c","e","_","_","p","r","i","c","e">>,
       <<".","D","r","u","g","P","r","i","c","e","_","_","b","e","s","t","-","p","r","i","c","e">>,
       <<".","s","t","y","l","e","_","_","p","r","i","c","e","-","t","a","g">>,
       <<".","p","r","i","c","e","-","d","i","s","p","l","a","y">>,
       <<".","p","r","i","c","e">>,
       <<".","b","e","s","t","-","p","r","i","c","e">>,
       <<".","o","f","f","e","r","-","p","r","i","c","e">>,
       <<"[","c","l","a","s","s","*","=","'","p","r","i","c","e","'","]">>,
       <<"[","c","l","a","s","s","*","=","'","P","r","i","c","e","'","]">>,
       <<"[","c","l","a","s","s","*","=","'","c","o","s","t","'","]">> >>)

\* Lines 506-531
image_selectors ==
    Selectors(
    << <<"i","m","g","[","c","l","a","s","s","*","=","'","p","r","o","d","u","c","t","-","i","m","a","g","e","'","]">>,
       <<"i","m","g","[","c","l","a","s","s","*","=","'","P","r","o","d","u","c","t","I","m","a","g","e","'","]">>,
       <<"i","m","g","[","c","l","a","s","s","*","=","'","m","e","d","i","c","i","n","e","-","i","m","a","g","e","'","]">>,
       <<"i","m","g","[","c","l","a","s","s","*","=","'","d","r","u","g","-","i","m","a","g","e","'","]">>,
       <<".","P","r","o","d","u","c","t","I","m","a","g","e"," ","i","m","g">>,
       <<".","P","r","o","d","u","c","t","I","m","a","g","e","_","_","i","m","a","g","e"," ","i","m","g">>,
       <<".","D","r","u","g","I","m","a","g","e"," ","i","m","g">>,
       <<".","M","e","d","i","c","i","n","e","I","m","a","g","e"," ","i","m","g">>,
       <<".","p","r","o","d","u","c","t","-","p","h","o","t","o"," ","i","m","g">>,
       <<".","p","r","o","d","u","c","t","-","i","m","a","g","e"," ","i","m","g">>,
       <<".","m","e","d","i","c","i","n","e","-","p","h","o","t","o"," ","i","m","g">>,
       <<".","d","r","u","g","-","p","h","o","t","o"," ","i","m","g">>,
       <<"i","m","g",".","s","t","y","l","e","_","_","p","r","o","d","u","c","t","-","i","m","a","g","e","_","_","_","3","C","R","o","G">>,
       <<".","p","r","o","d","u","c","t","-","i","m","a","g","e"," ","i","m","g">>,
       <<".","m","e","d","i","c","i","n","e","-","i","m","a","g","e">>,
       <<".","p","r","o","d","u","c","t","-","p","h","o","t","o"," ","i","m","g">>,
       <<"i","m","g","[","s","r","c","*","=","'","1","m","g","'","]">>,
       <<"i","m","g","[","d","a","t","a","-","s","r","c","*","=","'","1","m","g","'","]">>,
       <<"i","m","g","[","a","l","t","*","=","'","m","e","d","i","c","i","n","e","'","]">>,
       <<"i","m","g","[","a","l","t","*","=","'","d","r","u","g","'","]">>,
       <<"i","m","g","[","a","l","t","*","=","'","p","r","o","d","u","c","t","'","]">> >>)

(***************************************************************************)
(* urllib.parse.urljoin (Python 3.11), which extract_image calls           *)
(***************************************************************************)

uses_relative ==
    { <<>>, <<"f","t","p">>, <<"h","t","t","p">>, <<"g","o","p","h","e","r">>, <<"n","n","t","p">>, <<"i","m","a","p">>, <<"w","a","i","s">>, <<"f","i","l","e">>, <<"h","t","t","p","s">>, <<"s","h","t","t","p">>,
      <<"m","m","s">>, <<"p","r","o","s","p","e","r","o">>, <<"r","t","s","p">>, <<"r","t","s","p","s">>, <<"r","t","s","p","u">>, <<"s","f","t","p">>, <<"s","v","n">>, <<"s","v","n","+","s","s","h">>, <<"w","s">>, <<"w","s","s">> }

uses_netloc ==
    { <<>>, <<"f","t","p">>, <<"h","t","t","p">>, <<"g","o","p","h","e","r">>, <<"n","n","t","p">>, <<"t","e","l","n","e","t">>, <<"i","m","a","p">>, <<"w","a","i","s">>, <<"f","i","l","e">>, <<"m","m","s">>,
      <<"h","t","t","p","s">>, <<"s","h","t","t","p">>, <<"s","n","e","w","s">>, <<"p","r","o","s","p","e","r","o">>, <<"r","t","s","p">>, <<"r","t","s","p","s">>, <<"r","t","s","p","u">>, <<"r","s","y","n","c">>, <<"s","v","n">>,
      <<"s","v","n","+","s","s","h">>, <<"s","f","t","p">>, <<"n","f","s">>, <<"g","i","t">>, <<"g","i","t","+","s","s","h">>, <<"w","s">>, <<"w","s","s">> }

uses_params ==
    { <<>>, <<"f","t","p">>, <<"h","d","l">>, <<"p","r","o","s","p","e","r","o">>, <<"h","t","t","p">>, <<"i","m","a","p">>, <<"h","t","t","p","s">>, <<"s","h","t","t","p">>, <<"r","t","s","p">>, <<"r","t","s","p","s">>,
      <<"r","t","s","p","u">>, <<"s","i","p">>, <<"s","i","p","s">>, <<"m","m","s">>, <<"s","f","t","p">>, <<"t","e","l">> }

AsciiLetters == {AsciiCharacters[k] : k \in (66..91) \cup (98..123)}

AsciiDigits == {AsciiCharacters[k] : k \in 49..58}

scheme_chars == AsciiLetters \cup AsciiDigits \cup {"+", "-", "."}

HexDigits == AsciiDigits \cup {AsciiCharacters[k] : k \in (66..71) \cup (98..103)}

\* _WHATWG_C0_CONTROL_OR_SPACE: U+0000 to U+0020
C0ControlOrSpace == {AsciiCharacters[k] : k \in 1..33}

\* _UNSAFE_URL_BYTES_TO_REMOVE
UnsafeUrlBytes == {"\t", "\r", "\n"}

\* What urljoin gives when it raises ValueError.
ValueError == <<"ValueError">>

\* t.lstrip(cs)
RECURSIVE LStripOf(_, _)
LStripOf(t, cs) == IF t # <<>> /\ Head(t) \in cs THEN LStripOf(Tail(t), cs) ELSE t

\* t with every character of cs removed
RECURSIVE Without(_, _)
Without(t, cs) ==
    IF t = <<>> THEN <<>>
    ELSE IF Head(t) \in cs THEN Without(Tail(t), cs)
    ELSE <<Head(t)>> \o Without(Tail(t), cs)

\* c in t
HasChar(t, c) == \E k \in 1..Len(t) : t[k] = c

\* t.split(c, 1)[0], and t.partition(c)[0]
Before(t, c) == IF HasChar(t, c) THEN SubSeq(t, 1, Find(t, <<c>>) - 1) ELSE t

\* t.partition(c)[2]
After(t, c) == IF HasChar(t, c) THEN SubSeq(t, Find(t, <<c>>) + 1, Len(t)) ELSE <<>>

\* t.split(c)
RECURSIVE Split(_, _)
Split(t, c) == IF HasChar(t, c) THEN <<Before(t, c)>> \o Split(After(t, c), c) ELSE <<t>>

\* sep.join(parts)
RECURSIVE Join(_, _)
Join(parts, sep) ==
    IF parts = <<>> THEN <<>>
    ELSE IF Len(parts) = 1 THEN parts[1]
    ELSE parts[1] \o sep \o Join(Tail(parts), sep)

\* t.rfind(c), counted from 1, 0 when c is not in t
LastIndex(t, c) == IF HasChar(t, c) THEN CHOOSE p \in 1..Len(t) : t[p] = c /\ \A q \in (p + 1)..Len(t) : t[q] # c ELSE 0

\* ipaddress.IPv4Address._parse_octet raises nothing
IsOctet(o) ==
    /\ o # <<>>
    /\ \A k \in 1..Len(o) : o[k] \in AsciiDigits
    /\ Len(o) <= 3
    /\ (o = <<"0">> \/ o[1] # "0")
    /\ (Len(o) < 3 \/ Less(DigitValues(o), <<2, 5, 6>>))

\* ipaddress.IPv4Address(a) raises nothing
IsIPv4(a) ==
    /\ ~HasChar(a, "/")
    /\ Len(Split(a, ".")) = 4
    /\ \A k \in 1..4 : IsOctet(Split(a, ".")[k])

\* ipaddress.IPv6Address._parse_hextet raises nothing
IsHextet(h) == h # <<>> /\ Len(h) <= 4 /\ \A k \in 1..Len(h) : h[k] \in HexDigits

\* The parts of an address after an IPv4 suffix has become two hextets.
HextetParts(parts) ==
    IF HasChar(parts[Len(parts)], ".")
    THEN SubSeq(parts, 1, Len(parts) - 1) \o << <<"0">>, <<"0">> >>
    ELSE parts

\* The places of '::' between the ends of the parts.
SkipIndexes(parts) == {k \in 2..(Len(parts) - 1) : parts[k] = <<>>}

\* The hextets of an address with '::' at parts[skip]: those before and
\* those after it, a ':' at either end belonging to the '::'.
HextetsAround(parts, skip) ==
    /\ parts[1] = <<>> => skip = 2
    /\ parts[Len(parts)] = <<>> => skip = Len(parts) - 1
    /\ (IF parts[1] = <<>> THEN 0 ELSE skip - 1)
         + (IF parts[Len(parts)] = <<>> THEN 0 ELSE Len(parts) - skip) <= 7
    /\ \A k \in 1..Len(parts) :
          k \in {skip} \cup (IF parts[1] = <<>> THEN {1} ELSE {})
                       \cup (IF parts[Len(parts)] = <<>> THEN {Len(parts)} ELSE {})
          \/ IsHextet(parts[k])

\* ipaddress.IPv6Address._ip_int_from_string raises nothing for the parts
\* of an address whose IPv4 suffix, if any, is one.
AreHextets(parts) ==
    /\ Len(parts) <= 9
    /\ Cardinality(SkipIndexes(parts)) <= 1
    /\ IF SkipIndexes(parts) # {}
       THEN HextetsAround(parts, CHOOSE k \in SkipIndexes(parts) : TRUE)
       ELSE Len(parts) = 8 /\ \A k \in 1..8 : IsHextet(parts[k])

\* ipaddress.IPv6Address(a) raises nothing: a is the address, then '%' and
\* a scope if it holds a '%'.
IsIPv6Address(a) ==
    /\ a # <<>>
    /\ Len(Split(a, ":")) >= 3
    /\ HasChar(Split(a, ":")[Len(Split(a, ":"))], ".") => IsIPv4(Split(a, ":")[Len(Split(a, ":"))])
    /\ AreHextets(HextetParts(Split(a, ":")))

IsIPv6(a) ==
    /\ ~HasChar(a, "/")
    /\ HasChar(a, "%") => After(a, "%") # <<>> /\ ~HasChar(After(a, "%"), "%")
    /\ IsIPv6Address(Before(a, "%"))

\* The hexadecimal digits at the head of t.
RECURSIVE HexRun(_)
HexRun(t) == IF t # <<>> /\ Head(t) \in HexDigits THEN 1 + HexRun(Tail(t)) ELSE 0

\* re.match(r"\Av[a-fA-F0-9]+\..+\Z", hostname) for a host that starts
\* with 'v' and holds no line feed.
IsIPvFuture(hostname) ==
    /\ HexRun(Tail(hostname)) >= 1
    /\ Len(hostname) >= HexRun(Tail(hostname)) + 3
    /\ hostname[HexRun(Tail(hostname)) + 2] = "."

\* _check_bracketed_host raises nothing
IsBracketedHost(hostname) ==
    IF StartsWith(hostname, <<"v">>) THEN IsIPvFuture(hostname) ELSE IsIPv6(hostname)

\* _checknetloc raises: a netloc that is not ASCII and holds a character
\* that normalises to one of the delimiters.
HasLookalike(netloc) == \E k \in 1..Len(netloc) : netloc[k] \in NetlocLookalikes

\* urlsplit raises ValueError for the netloc.
InvalidNetloc(netloc) ==
    \/ HasChar(netloc, "[") /\ ~HasChar(netloc, "]")
    \/ HasChar(netloc, "]") /\ ~HasChar(netloc, "[")
    \/ /\ HasChar(netloc, "[")
       /\ HasChar(netloc, "]")
       /\ ~IsBracketedHost(Before(After(netloc, "["), "]"))
    \/ HasLookalike(netloc)

\* url.find(':') is the end of a scheme.
HasScheme(url) ==
    /\ Find(url, <<":">>) > 1
    /\ url[1] \in AsciiLetters
    /\ \A k \in 1..(Find(url, <<":">>) - 1) : url[k] \in scheme_chars

\* The first of '/', '?', '#' at or after position p of url, its length
\* and one when there is none (_splitnetloc).
NetlocEnd(url, p) ==
    CHOOSE d \in p..(Len(url) + 1) :
        /\ d = Len(url) + 1 \/ url[d] \in {"/", "?", "#"}
        /\ \A q \in p..(d - 1) : url[q] \notin {"/", "?", "#"}

\* _splitparams: the ';' that starts the parameters of the last segment of
\* a path, 0 when it has none.
ParamsAt(path) ==
    IF HasChar(path, "/") THEN FindFrom(path, <<";">>, LastIndex(path, "/"))
    ELSE Find(path, <<";">>)

\* The path and the parameters of urlparse.
PathOnly(scheme, path) ==
    IF scheme \in uses_params /\ ParamsAt(path) # 0 THEN SubSeq(path, 1, ParamsAt(path) - 1) ELSE path

ParamsOnly(scheme, path) ==
    IF scheme \in uses_params /\ ParamsAt(path) # 0
    THEN SubSeq(path, ParamsAt(path) + 1, Len(path))
    ELSE <<>>

\* The six components, and whether urlsplit raises ValueError, for what
\* follows the netloc.
Components(scheme, netloc, rest) ==
    [raises |-> InvalidNetloc(netloc),
     scheme |-> scheme,
     netloc |-> netloc,
     path |-> PathOnly(scheme, Before(Before(rest, "#"), "?")),
     params |-> ParamsOnly(scheme, Before(Before(rest, "#"), "?")),
     query |-> After(Before(rest, "#"), "?"),
     fragment |-> After(rest, "#")]

\* for what follows the scheme,
AfterScheme(scheme, url) ==
    IF StartsWith(url, <<"/","/">>)
    THEN Components(scheme, SubSeq(url, 3, NetlocEnd(url, 3) - 1),
                    SubSeq(url, NetlocEnd(url, 3), Len(url)))
    ELSE Components(scheme, <<>>, url)

\* and for a url stripped of what urlsplit removes.
SplitScheme(url, scheme) ==
    IF HasScheme(url)
    THEN AfterScheme(Lower(SubSeq(url, 1, Find(url, <<":">>) - 1)),
                     SubSeq(url, Find(url, <<":">>) + 1, Len(url)))
    ELSE AfterScheme(scheme, url)

\* urlparse(url, scheme), for a default scheme that is none or the scheme
\* of a parsed url (which urlsplit's cleaning leaves as it is).
urlparse(url, scheme) == SplitScheme(Without(LStripOf(url, C0ControlOrSpace), UnsafeUrlBytes), scheme)

\* urlunsplit((scheme, netloc, url, query, fragment))
WithNetloc(scheme, netloc, url) ==
    IF netloc # <<>> \/ (scheme # <<>> /\ scheme \in uses_netloc /\ ~StartsWith(url, <<"/","/">>))
    THEN <<"/","/">> \o netloc \o (IF url # <<>> /\ url[1] # "/" THEN <<"/">> ELSE <<>>) \o url
    ELSE url

urlunsplit(scheme, netloc, url, query, fragment) ==
    (IF scheme # <<>> THEN scheme \o <<":">> ELSE <<>>)
        \o WithNetloc(scheme, netloc, url)
        \o (IF query # <<>> THEN <<"?">> \o query ELSE <<>>)
        \o (IF fragment # <<>> THEN <<"#">> \o fragment ELSE <<>>)

urlunparse(scheme, netloc, path, params, query, fragment) ==
    urlunsplit(scheme, netloc, IF params # <<>> THEN path \o <<";">> \o params ELSE path,
               query, fragment)

\* The path of the base without its last segment, as parts.
BaseParts(bpath) ==
    IF Split(bpath, "/")[Len(Split(bpath, "/"))] # <<>>
    THEN SubSeq(Split(bpath, "/"), 1, Len(Split(bpath, "/")) - 1)
    ELSE Split(bpath, "/")

\* filter(None, ...) keeps the segments that are not empty.
NotEmpty(seg) == seg # <<>>

\* segments[1:-1] = filter(None, segments[1:-1])
WithoutEmptyMiddle(segments) ==
    IF Len(segments) < 3 THEN segments
    ELSE <<segments[1]>>
            \o SelectSeq(SubSeq(segments, 2, Len(segments) - 1), NotEmpty)
            \o <<segments[Len(segments)]>>

Segments(bpath, path) ==
    IF StartsWith(path, <<"/">>) THEN Split(path, "/")
    ELSE WithoutEmptyMiddle(BaseParts(bpath) \o Split(path, "/"))

\* The segments with '.' dropped and '..' taking back the segment before.
RECURSIVE Resolved(_, _)
Resolved(segments, resolved_path) ==
    IF segments = <<>> THEN resolved_path
    ELSE IF Head(segments) = <<".",".">>
    THEN Resolved(Tail(segments),
                  IF resolved_path = <<>> THEN <<>>
                  ELSE SubSeq(resolved_path, 1, Len(resolved_path) - 1))
    ELSE IF Head(segments) = <<".">>
    THEN Resolved(Tail(segments), resolved_path)
    ELSE Resolved(Tail(segments), Append(resolved_path, Head(segments)))

ResolvedPath(segments) ==
    IF segments[Len(segments)] \in { <<".">>, <<".",".">> }
    THEN Join(Append(Resolved(segments, <<>>), <<>>), <<"/">>)
    ELSE Join(Resolved(segments, <<>>), <<"/">>)

\* urljoin for the components of the base and of the url.
JoinComponents(b, u, url) ==
    IF u.scheme # b.scheme \/ u.scheme \notin uses_relative THEN url
    ELSE IF u.scheme \in uses_netloc /\ u.netloc # <<>>
    THEN urlunparse(u.scheme, u.netloc, u.path, u.params, u.query, u.fragment)
    ELSE IF u.path = <<>> /\ u.params = <<>>
    THEN urlunparse(u.scheme, IF u.scheme \in uses_netloc THEN b.netloc ELSE u.netloc,
                    b.path, b.params, IF u.query = <<>> THEN b.query ELSE u.query, u.fragment)
    ELSE urlunparse(u.scheme, IF u.scheme \in uses_netloc THEN b.netloc ELSE u.netloc,
                    IF ResolvedPath(Segments(b.path, u.path)) = <<>> THEN <<"/">>
                    ELSE ResolvedPath(Segments(b.path, u.path)),
                    u.params, u.query, u.fragment)

JoinParsed(b, url) ==
    IF b.raises \/ urlparse(url, b.scheme).raises THEN ValueError
    ELSE JoinComponents(b, urlparse(url, b.scheme), url)

\* urllib.parse.urljoin(base, url): the url, or ValueError when it raises.
urljoin(base, url) ==
    IF base = <<>> THEN url
    ELSE IF url = <<>> THEN base
    ELSE JoinParsed(urlparse(base, <<>>), url)

(***************************************************************************)
(* extract_quantity                                                        *)
(***************************************************************************)

\* r'(\d+(?:\.\d+)?)\s*(?:tablets?|tabs?|strips?|capsules?|pills?)'
quantity_unit ==
    <<Num, Ws,
      Alt(<< <<Lit(<<"t","a","b","l","e","t">>), Opt(<<"s">>)>>, <<Lit(<<"t","a","b">>), Opt(<<"s">>)>>,
             <<Lit(<<"s","t","r","i","p">>), Opt(<<"s">>)>>, <<Lit(<<"c","a","p","s","u","l","e">>), Opt(<<"s">>)>>,
             <<Lit(<<"p","i","l","l">>), Opt(<<"s">>)>> >>)>>

\* r'\d+'
some_digits == <<Digs>>

quantity_patterns ==
    << <<Num, Ws, Lit(<<"t","a","b","l","e","t">>), Opt(<<"s">>), Ws, Lit(<<"i","n">>), Ws, Digs, Ws, Lit(<<"s","t","r","i","p">>)>>,
       <<Num, Ws, Lit(<<"t","a","b","l","e","t">>), Opt(<<"s">>)>>,
       <<Num, Ws, Lit(<<"t","a","b">>), Opt(<<"s">>)>>,
       <<Num, Ws, Lit(<<"s","t","r","i","p">>), Opt(<<"s">>)>>,
       <<Num, Ws, Lit(<<"c","a","p","s","u","l","e">>), Opt(<<"s">>)>>,
       <<Num, Ws, Lit(<<"p","i","l","l">>), Opt(<<"s">>)>>,
       <<Num, Ws, Lit(<<"p","i","e","c","e">>), Opt(<<"s">>)>> >>

\* The formatting as it would be with the number kept as matched.
KeepPointZero(quantity_num) == quantity_num \o <<" ","t","a","b","l","e","t","s">>

\* Lines 174-178 and 203-207: a trailing ".0" is dropped and " tablets"
\* appended.
FormatQuantity(quantity_num) ==
    (IF EndsWith(quantity_num, <<".","0">>)
     THEN SubSeq(quantity_num, 1, Len(quantity_num) - 2)
     ELSE quantity_num) \o <<" ","t","a","b","l","e","t","s">>

\* Lines 201-209: the quantity a match of a fallback pattern gives.
QuantityOfPattern(match) == IF match.ok THEN FormatQuantity(match.cap) ELSE NA

\* Lines 186-211: the patterns tried on the text of the whole document.
QuantityFromText(all_text) == QuantityOfPattern(FirstSearch(quantity_patterns, all_text))

\* Lines 172-182: a text with a unit gives the formatted quantity, any
\* other text with a digit is returned as it is.
QuantityOfMatch(text, quantity_match) ==
    IF quantity_match.ok THEN FormatQuantity(quantity_match.cap)
    ELSE IF Search(some_digits, text).ok THEN text
    ELSE None

\* Line 170
QuantityOfText(text) ==
    IF text # <<>> THEN QuantityOfMatch(text, Search(quantity_unit, text)) ELSE None

\* Lines 168-169
QuantityOfElement(doc, element) ==
    IF element # 0 THEN QuantityOfText(get_text_strip(doc, element)) ELSE None

\* Lines 165-184: the selectors in order, None when none returns.
RECURSIVE QuantityFromSelectors(_, _)
QuantityFromSelectors(doc, sels) ==
    IF sels = <<>> THEN None
    ELSE Else(QuantityOfElement(doc, select_one(doc, Head(sels))),
              QuantityFromSelectors(doc, Tail(sels)))

extract_quantity(doc) ==
    Else(QuantityFromSelectors(doc, quantity_selectors), QuantityFromText(get_text(doc)))

(***************************************************************************)
(* extract_price_info                                                      *)
(***************************************************************************)

\* Line 281
NoPrices == << <<"mrp", NA>>, <<"discounted_price", NA>> >>

\* Line 241 / 276: a parse that found one price at least is returned.
FoundPrice(p) ==
    GetOr(p, "discounted_price", None) # NA \/ GetOr(p, "mrp", None) # NA

ParsedIfFound(price_info) == IF FoundPrice(price_info) THEN price_info ELSE None

\* Lines 239-242: only a text with a currency mark is parsed.
PricesOfContainerText(container_text) ==
    IF /\ container_text # <<>>
       /\ (Contains(container_text, <<"₹">>) \/ Contains(container_text, <<"R","s">>))
    THEN ParsedIfFound(parse_price_info(container_text))
    ELSE None

\* Lines 236-238
PricesOfContainer(doc, container) ==
    IF container # 0 THEN PricesOfContainerText(get_text_strip(doc, container)) ELSE None

\* Lines 233-244: the price containers in order.
RECURSIVE PricesFromContainers(_, _)
PricesFromContainers(doc, sels) ==
    IF sels = <<>> THEN None
    ELSE Else(PricesOfContainer(doc, select_one(doc, Head(sels))),
              PricesFromContainers(doc, Tail(sels)))

\* Lines 273-277
PricesOfElementText(text) ==
    IF text # <<>> THEN ParsedIfFound(parse_price_info(text)) ELSE None

\* Lines 271-272
PricesOfElement(doc, element) ==
    IF element # 0 THEN PricesOfElementText(get_text_strip(doc, element)) ELSE None

\* Lines 269-279: the individual price elements in order.
RECURSIVE PricesFromElements(_, _)
PricesFromElements(doc, sels) ==
    IF sels = <<>> THEN None
    ELSE Else(PricesOfElement(doc, select_one(doc, Head(sels))),
              PricesFromElements(doc, Tail(sels)))

extract_price_info(doc) ==
    Else(PricesFromContainers(doc, price_containers),
    Else(PricesFromElements(doc, individual_selectors),
         NoPrices))

(***************************************************************************)
(* extract_image                                                           *)
(***************************************************************************)

image_extensions == << <<".","j","p","g">>, <<".","j","p","e","g">>, <<".","p","n","g">>, <<".","w","e","b","p">>, <<".","g","i","f">> >>

\* any(ext in src.lower() for ext in [...])
HasImageExtension(src) ==
    \E k \in 1..Len(image_extensions) : Contains(Lower(src), image_extensions[k])

\* a or b or ... over attribute values: the first that is neither None
\* nor empty, None when there is none.
RECURSIVE FirstTruthy(_)
FirstTruthy(vals) ==
    IF vals = <<>> THEN None
    ELSE IF Head(vals) # None /\ Head(vals) # <<>> THEN Head(vals)
    ELSE FirstTruthy(Tail(vals))

\* except Exception: what the handlers of lines 555, 569, 596 and 609 make
\* of a urljoin that raises.
Caught(v) == IF v = ValueError THEN None ELSE v

\* Lines 545-550: a source made absolute.
AbsoluteSource(img_src, base_url) ==
    IF StartsWith(img_src, <<"/","/">>) THEN <<"h","t","t","p","s",":">> \o img_src
    ELSE IF StartsWith(img_src, <<"/">>) THEN urljoin(base_url, img_src)
    ELSE IF ~StartsWith(img_src, <<"h","t","t","p">>) THEN urljoin(base_url, img_src)
    ELSE img_src

\* Lines 564-567, 582-585, 589-592, 604-607: the fallbacks make absolute
\* the sources that start with a slash only.
AbsoluteFallback(src, base_url) ==
    IF StartsWith(src, <<"/","/">>) THEN <<"h","t","t","p","s",":">> \o src
    ELSE IF StartsWith(src, <<"/">>) THEN urljoin(base_url, src)
    ELSE src

\* Lines 553-556
ImageIfNamed(img_src) ==
    IF Caught(img_src) # None /\ HasImageExtension(img_src) THEN img_src ELSE None

\* Lines 543-554
ImageOfSource(img_src, base_url) ==
    IF img_src # None THEN ImageIfNamed(AbsoluteSource(img_src, base_url)) ELSE None

\* Lines 536-554
ImageOfTag(doc, base_url, img_tag) ==
    IF img_tag # 0
    THEN ImageOfSource(FirstTruthy(<<GetAttr(doc.nodes[img_tag], <<"s","r","c">>),
                                     GetAttr(doc.nodes[img_tag], <<"d","a","t","a","-","s","r","c">>),
                                     GetAttr(doc.nodes[img_tag], <<"d","a","t","a","-","l","a","z","y","-","s","r","c">>),
                                     GetAttr(doc.nodes[img_tag], <<"d","a","t","a","-","o","r","i","g","i","n","a","l">>)>>),
                       base_url)
    ELSE None

\* Lines 533-556: the image selectors in order.
RECURSIVE ImageFromSelectors(_, _, _)
ImageFromSelectors(doc, base_url, sels) ==
    IF sels = <<>> THEN None
    ELSE Else(ImageOfTag(doc, base_url, select_one(doc, Head(sels))),
              ImageFromSelectors(doc, base_url, Tail(sels)))

\* Lines 559-570: any img whose source names 1mg and an image extension.
RECURSIVE ImageFromAnyImg(_, _, _)
ImageFromAnyImg(doc, base_url, k) ==
    IF k > Len(doc.nodes) THEN None
    ELSE LET src == FirstTruthy(<<GetAttr(doc.nodes[k], <<"s","r","c">>),
                                  GetAttr(doc.nodes[k], <<"d","a","t","a","-","s","r","c">>)>>)
         IN  IF /\ doc.nodes[k].tag = <<"i","m","g">>
                /\ src # None
                /\ Contains(src, <<"1","m","g">>)
                /\ HasImageExtension(src)
             THEN Caught(AbsoluteFallback(src, base_url))
             ELSE ImageFromAnyImg(doc, base_url, k + 1)

\* Lines 573-597: the JSON-LD scripts in order. A script is
\*   [kind |-> "invalid"]              json.loads raises JSONDecodeError,
\*   [kind |-> "empty"]                script.string is None (TypeError),
\*   [kind |-> "other"]                the value is no dict with 'image',
\*   [kind |-> "str", image |-> s]     'image' is the string s,
\*   [kind |-> "list", image |-> l]    'image' is the list l of strings,
\*   [kind |-> "badlist"]              'image' is a list whose first item
\*                                     is no string (AttributeError).
\* JSONDecodeError goes on to the next script; any other exception leaves
\* the loop.
RECURSIVE ImageFromJsonLd(_, _, _)
ImageFromJsonLd(doc, base_url, k) ==
    IF k > Len(doc.jsonld) THEN None
    ELSE LET data == doc.jsonld[k]
         IN  CASE data.kind = "str" -> Caught(AbsoluteFallback(data.image, base_url))
               [] data.kind = "list" /\ Len(data.image) > 0 ->
                    Caught(AbsoluteFallback(data.image[1], base_url))
               [] data.kind \in {"empty", "badlist"} -> None
               [] OTHER -> ImageFromJsonLd(doc, base_url, k + 1)

\* Lines 600-610: the og:image meta tag.
ImageFromMeta(doc, base_url) ==
    IF doc.og_image # None /\ doc.og_image # <<>>
    THEN Caught(AbsoluteFallback(doc.og_image, base_url))
    ELSE None

extract_image(doc, base_url) ==
    Else(ImageFromSelectors(doc, base_url, image_selectors),
    Else(ImageFromAnyImg(doc, base_url, 1),
    Else(ImageFromJsonLd(doc, base_url, 1),
    Else(ImageFromMeta(doc, base_url),
         NA))))

(***************************************************************************)
(* The records                                                             *)
(***************************************************************************)

\* create_error_record as it would be without the price column.
ErrorRecordWithoutPrice(url, error_msg) ==
    << <<"name", Error>>,
       <<"mrp", Error>>,
       <<"discounted_price", Error>>,
       <<"quantity", Error>>,
       <<"image", Error>>,
       <<"manufacturer", Error>>,
       <<"composition", Error>>,
       <<"url", url>>,
       <<"status", error_msg>> >>

create_error_record(url, error_msg) ==
    << <<"name", Error>>,
       <<"mrp", Error>>,
       <<"discounted_price", Error>>,
       <<"price", Error>>,
       <<"quantity", Error>>,
       <<"image", Error>>,
       <<"manufacturer", Error>>,
       <<"composition", Error>>,
       <<"url", url>>,
       <<"status", error_msg>> >>

\* Lines 121-132 as they would be with the MRP kept as the price.
RecordWithMrpAsPrice(url, doc, price_info) ==
    << <<"name", extract_field(doc, name_selectors)>>,
       <<"mrp", GetOr(price_info, "mrp", NA)>>,
       <<"discounted_price", GetOr(price_info, "discounted_price", NA)>>,
       <<"price", GetOr(price_info, "mrp", NA)>>,
       <<"quantity", extract_quantity(doc)>>,
       <<"image", extract_image(doc, url)>>,
       <<"manufacturer", extract_field(doc, manufacturer_selectors)>>,
       <<"composition", extract_field(doc, composition_selectors)>>,
       <<"url", url>>,
       <<"status", Success>> >>

\* Lines 121-132: the record made of the extracted values.
MedicineRecord(url, doc, price_info) ==
    << <<"name", extract_field(doc, name_selectors)>>,
       <<"mrp", GetOr(price_info, "mrp", NA)>>,
       <<"discounted_price", GetOr(price_info, "discounted_price", NA)>>,
       <<"price", GetOr(price_info, "discounted_price", NA)>>,
       <<"quantity", extract_quantity(doc)>>,
       <<"image", extract_image(doc, url)>>,
       <<"manufacturer", extract_field(doc, manufacturer_selectors)>>,
       <<"composition", extract_field(doc, composition_selectors)>>,
       <<"url", url>>,
       <<"status", Success>> >>

\* Lines 52-135 of scrape_medicine: the record of a page that was fetched
\* and parsed.
SuccessRecord(url, doc) == MedicineRecord(url, doc, extract_price_info(doc))

\* scrape_medicine as it would be with one handler for every exception.
OneHandlerForAll(url, fetched) ==
    CASE fetched.kind \in {"request_error", "error"} ->
            create_error_record(url, <<"P","a","r","s","i","n","g"," ","e","r","r","o","r",":"," ">> \o fetched.msg)
      [] fetched.kind = "ok" -> SuccessRecord(url, fetched.doc)

\* scrape_medicine after the delay: `fetched` is what requests.get,
\* raise_for_status and the extraction did,
\*   [kind |-> "request_error", msg |-> e]  a RequestException e,
\*   [kind |-> "error", msg |-> e]          any other exception e,
\*   [kind |-> "ok", doc |-> d]             the document d was parsed.
scrape_medicine(url, fetched) ==
    CASE fetched.kind = "request_error" ->
            create_error_record(url, <<"N","e","t","w","o","r","k"," ","e","r","r","o","r",":"," ">> \o fetched.msg)
      [] fetched.kind = "error" ->
            create_error_record(url, <<"P","a","r","s","i","n","g"," ","e","r","r","o","r",":"," ">> \o fetched.msg)
      [] fetched.kind = "ok" -> SuccessRecord(url, fetched.doc)

(***************************************************************************)
(* Inputs                                                                  *)
(***************************************************************************)

\* Bounds of the inputs drawn.
MaxPriceTokens == 3

MaxNodes == 2

MaxUrls == 10

MaxFaults == 1

\* The pieces price texts are made of.
PriceTokens ==
    { <<"M","R","P">>, <<"m","r","p"," ">>, <<"M","R","P",":"," ">>, <<"₹","1","9","9">>, <<" ","₹","U+096B","U+0966",".","U+0967","U+0968","U+096C">>, <<"₹","3","4",".","2","7","4">>, <<"R","s","."," ","6","0">>,
      <<"O","f","f","e","r"," ","P","r","i","c","e",":">>, <<" ","(","9","%"," ","o","f","f",")">> }

RECURSIVE TokenTexts(_)
TokenTexts(n) ==
    IF n = 0 THEN {<<>>}
    ELSE TokenTexts(n - 1) \cup {t \o tok : t \in TokenTexts(n - 1), tok \in PriceTokens}

PriceTexts == TokenTexts(MaxPriceTokens)

NoAttrs == [a \in {} |-> <<>>]

Tag(tag, cls, text) ==
    [tag |-> tag, cls |-> cls, attrs |-> NoAttrs, text |-> text, inside |-> FALSE]

Img(cls, attrs, inside) ==
    [tag |-> <<"i","m","g">>, cls |-> cls, attrs |-> attrs, text |-> <<>>, inside |-> inside]

\* The tags documents are made of; `inside` puts a tag inside the tag
\* before it.
TagPool ==
    { Tag(<<"h","1">>, <<"D","r","u","g","H","e","a","d","e","r","_","_","t","i","t","l","e">>, <<" ","D","o","l","o"," ","6","5","0"," ">>),
      Tag(<<"d","i","v">>, <<"m","a","n","u","f","a","c","t","u","r","e","r">>, <<"M","i","c","r","o"," ","L","a","b","s">>),
      Tag(<<"d","i","v">>, <<"s","a","l","t","-","i","n","f","o">>, <<"P","a","r","a","c","e","t","a","m","o","l">>),
      Tag(<<"d","i","v">>, <<"D","r","u","g","P","r","i","c","e","B","o","x">>, <<"M","R","P"," ","₹","3","4",".","2","7","4"," ","₹","3","0">>),
      Tag(<<"s","p","a","n">>, <<"p","r","i","c","e">>, <<"c","a","l","l"," ","u","s">>),
      Tag(<<"s","p","a","n">>, <<"c","o","s","t">>, <<"₹","5","0">>),
      Tag(<<"d","i","v">>, <<"p","a","c","k","-","s","i","z","e">>, <<"1","5",".","0"," ","t","a","b","l","e","t","s"," ","i","n"," ","1"," ","s","t","r","i","p">>),
      Tag(<<"p">>, <<>>, <<"2"," ","c","a","p","s","u","l","e","s">>),
      Tag(<<"d","i","v">>, <<"q","u","a","n","t","i","t","y">>, <<"U+0967","U+0966"," ","P","U+0130","L","L","S">>),
      Tag(<<"p">>, <<>>, <<"h","e","l","l","o">>),
      Tag(<<"d","i","v">>, <<"P","r","o","d","u","c","t","I","m","a","g","e"," ","n","o","t","e">>, <<>>),
      Img(<<"p","r","o","d","u","c","t","-","i","m","a","g","e">>, (<<"s","r","c">> :> <<"/","/","c","d","n",".","1","m","g",".","c","o","m","/","x",".","j","p","g">>), FALSE),
      Img(<<"p","r","o","d","u","c","t","-","i","m","a","g","e">>, (<<"s","r","c">> :> <<"/","a",".","j","p","g","/","s">>), FALSE),
      Img(<<"p","r","o","d","u","c","t","-","i","m","a","g","e">>, (<<"s","r","c">> :> <<".",".","/","i","m","g","/",".","/","x",".","J","P","G","?","w","=","1">>), FALSE),
      Img(<<>>, (<<"d","a","t","a","-","s","r","c">> :> <<"/","i","m","g","/","y",".","p","n","g">>), TRUE) }

RECURSIVE TagSeqs(_)
TagSeqs(n) ==
    IF n = 0 THEN {<<>>}
    ELSE TagSeqs(n - 1) \cup {Append(s, t) : s \in TagSeqs(n - 1), t \in TagPool}

Node(tags, k) ==
    [tag |-> tags[k].tag, cls |-> tags[k].cls, attrs |-> tags[k].attrs,
     text |-> tags[k].text,
     parent |-> IF tags[k].inside /\ k > 1 THEN k - 1 ELSE 0]

Document(tags, jsonld, og_image) ==
    [nodes |-> [k \in 1..Len(tags) |-> Node(tags, k)],
     jsonld |-> jsonld, og_image |-> og_image]

\* No document at hand.
NoDocument == Document(<<>>, <<>>, None)

JsonLdChoices ==
    { <<>>,
      <<[kind |-> "invalid"], [kind |-> "str", image |-> <<"/","l","d",".","j","p","g">>]>>,
      <<[kind |-> "badlist"], [kind |-> "str", image |-> <<"/","l","d",".","j","p","g">>]>> }

OgImageChoices == { None, <<"/","/","c","d","n",".","1","m","g",".","c","o","m","/","o","g">> }

Documents ==
    {Document(tags, <<>>, None) : tags \in TagSeqs(MaxNodes)}
        \cup {Document(<<>>, j, o) : j \in JsonLdChoices, o \in OgImageChoices}

\* The pages that carry a price text: in a price container (lines 233-244),
\* and in an individual price element (lines 269-279) that comes after a
\* price box without a price, which is the element every container
\* selector that matches finds first.
PricePages(text) ==
    { Document(<<Tag(<<"d","i","v">>, <<"D","r","u","g","P","r","i","c","e","B","o","x">>, text)>>, <<>>, None),
      Document(<<Tag(<<"d","i","v">>, <<"P","r","i","c","e","B","o","x"," ","p","r","i","c","e">>, <<"c","a","l","l"," ","u","s">>),
                 Tag(<<"s","p","a","n">>, <<"D","r","u","g","P","r","i","c","e","B","o","x","_","_","b","e","s","t","-","p","r","i","c","e","_","_","_","3","2","J","X","w">>, text)>>, <<>>, None) }

\* The selector lists extract_field is called with: the three of
\* scrape_medicine and the list of the individual price elements.
SelectorLists ==
    {name_selectors, manufacturer_selectors, composition_selectors, individual_selectors}

\* The page every scrape_medicine call of the page specification is for.
PageUrl == <<"h","t","t","p","s",":","/","/","w","w","w",".","1","m","g",".","c","o","m","/","d","r","u","g","s","/","d","o","l","o","-","6","5","0">>

Urls == << <<"h","t","t","p","s",":","/","/","w","w","w",".","1","m","g",".","c","o","m","/","a">>, <<"h","t","t","p","s",":","/","/","w","w","w",".","1","m","g",".","c","o","m","/","b">>, <<"h","t","t","p","s",":","/","/","w","w","w",".","1","m","g",".","c","o","m","/","c">> >>

\* What the site serves at each url.
Web ==
    << Document(<<Tag(<<"h","1">>, <<"D","r","u","g","H","e","a","d","e","r","_","_","t","i","t","l","e">>, <<"D","o","l","o"," ","6","5","0">>),
                  Tag(<<"d","i","v">>, <<"D","r","u","g","P","r","i","c","e","B","o","x">>, <<"M","R","P"," ","₹","3","4",".","2","7","4"," ","₹","3","0">>)>>, <<>>, None),
       Document(<<Tag(<<"p">>, <<>>, <<"h","e","l","l","o">>)>>, <<>>, None),
       Document(<<Tag(<<"d","i","v">>, <<"p","a","c","k","-","s","i","z","e">>, <<"1","5",".","0"," ","t","a","b","l","e","t","s"," ","i","n"," ","1"," ","s","t","r","i","p">>),
                  Img(<<"p","r","o","d","u","c","t","-","i","m","a","g","e">>, (<<"s","r","c">> :> <<"/","/","c","d","n",".","1","m","g",".","c","o","m","/","x",".","j","p","g">>), FALSE)>>,
                <<>>, None) >>

\* The url lists: the first n urls of the site's urls taken in a circle
\* (a list longer than the site repeats urls).
UrlList(n, first) == [k \in 1..n |-> Urls[((first + k - 2) % Len(Urls)) + 1]]

UrlLists == {UrlList(n, 1) : n \in 0..MaxUrls}

\* The delays in seconds: 0 as main passes it (DELAY_SECONDS) and the
\* default 2; time.sleep takes no negative number.
Delays == {0, 2}

RequestErrors == { <<"R","e","a","d"," ","t","i","m","e","d"," ","o","u","t",".">> }

ParseErrors == { <<"n","o"," ","l","e","n","(",")">> }

WriteErrors == { <<"P","e","r","m","i","s","s","i","o","n"," ","d","e","n","i","e","d">> }

(***************************************************************************)
(* scrape_medicines_batch                                                  *)
(***************************************************************************)

\* Line 659: i % 5 == 0
SnapshotEvery == 5

\* What scrape_medicine returns for each url of the site when its page
\* arrives and is read.
SiteRecords ==
    [k \in 1..Len(Urls) |-> scrape_medicine(Urls[k], [kind |-> "ok", doc |-> Web[k]])]

ScrapedPage(url) == SiteRecords[CHOOSE k \in 1..Len(Urls) : Urls[k] = url]

\* A failure may happen while fewer than MaxFaults have.
MayFail == Cardinality(faults) < MaxFaults

\* Line 659: the snapshot is due when save_progress is set and i is a
\* multiple of 5.
SnapshotDue == save_progress /\ i % SnapshotEvery = 0

\* The step of lines 655-656 as it would be with the record put first.
PrependResult(kind, rec) ==
    /\ results' = <<rec>> \o results
    /\ last' = [i |-> i, kind |-> kind, rec |-> rec]
    /\ pc' = IF SnapshotDue THEN "to_csv" ELSE "next"

\* Lines 655-656: scrape_medicine returns rec, which is appended.
AppendResult(kind, rec) ==
    /\ results' = Append(results, rec)
    /\ last' = [i |-> i, kind |-> kind, rec |-> rec]
    /\ pc' = IF SnapshotDue THEN "to_csv" ELSE "next"

InitBatch ==
    /\ urls \in UrlLists
    /\ delay \in Delays
    /\ save_progress \in BOOLEAN
    /\ pc = "call"
    /\ i = 0
    /\ results = <<>>
    /\ snapshots = <<>>
    /\ json_snapshots = <<>>
    /\ returned = <<>>
    /\ events = <<>>
    /\ last = [i |-> 0, kind |-> "none", rec |-> <<>>]
    /\ faults = {}
    /\ interrupted_at = "none"
    /\ summary = None
    /\ final_files = <<>>
    /\ main_result = None

\* Lines 641-649: no url gives an empty DataFrame at once.
Call ==
    /\ pc = "call"
    /\ IF urls = <<>>
       THEN pc' = "returned" /\ i' = i
       ELSE pc' = "sleep" /\ i' = 1
    /\ UNCHANGED <<urls, delay, save_progress, results, snapshots,
                   json_snapshots, returned, events, last, faults>>
    /\ UNCHANGED <<main_vars, price_vars, page_vars>>

\* The step of line 46 as it would be without the sleep.
NoSleep ==
    /\ pc = "sleep"
    /\ pc' = "get"
    /\ UNCHANGED <<urls, delay, save_progress, i, results, snapshots,
                   json_snapshots, returned, events, last, faults>>
    /\ UNCHANGED <<main_vars, price_vars, page_vars>>

\* Line 46: time.sleep(delay)
Sleep ==
    /\ pc = "sleep"
    /\ events' = Append(events, [e |-> "sleep", i |-> i, secs |-> delay])
    /\ pc' = "get"
    /\ UNCHANGED <<urls, delay, save_progress, i, results, snapshots,
                   json_snapshots, returned, last, faults>>
    /\ UNCHANGED <<main_vars, price_vars, page_vars>>

\* Line 49: requests.get sends the request.
SendRequest ==
    /\ pc = "get"
    /\ events' = Append(events, [e |-> "request", i |-> i, secs |-> 0])
    /\ pc' = "wait"
    /\ UNCHANGED <<urls, delay, save_progress, i, results, snapshots,
                   json_snapshots, returned, last, faults>>
    /\ UNCHANGED <<main_vars, price_vars, page_vars>>

\* Lines 49-50 and 137-139: the request fails or the status is an error
\* one; scrape_medicine returns the error record.
RequestFails ==
    /\ pc = "wait"
    /\ MayFail
    /\ \E e \in RequestErrors :
          AppendResult("request_error",
                       scrape_medicine(urls[i], [kind |-> "request_error", msg |-> e]))
    /\ events' = Append(events, [e |-> "failed", i |-> i, secs |-> 0])
    /\ faults' = faults \cup {<<"request", i>>}
    /\ UNCHANGED <<urls, delay, save_progress, i, snapshots, json_snapshots, returned>>
    /\ UNCHANGED <<main_vars, price_vars, page_vars>>

\* Lines 49-52: the page arrives.
ResponseArrives ==
    /\ pc = "wait"
    /\ events' = Append(events, [e |-> "response", i |-> i, secs |-> 0])
    /\ pc' = "extract"
    /\ UNCHANGED <<urls, delay, save_progress, i, results, snapshots,
                   json_snapshots, returned, last, faults>>
    /\ UNCHANGED <<main_vars, price_vars, page_vars>>

\* Lines 52-135 and 140-142: an exception while the page is read.
ExtractFails ==
    /\ pc = "extract"
    /\ MayFail
    /\ \E e \in ParseErrors :
          AppendResult("error", scrape_medicine(urls[i], [kind |-> "error", msg |-> e]))
    /\ faults' = faults \cup {<<"parse", i>>}
    /\ UNCHANGED <<urls, delay, save_progress, i, snapshots, json_snapshots,
                   returned, events>>
    /\ UNCHANGED <<main_vars, price_vars, page_vars>>

\* Lines 52-135: the fields are extracted and the record returned.
Extract ==
    /\ pc = "extract"
    /\ AppendResult("ok", ScrapedPage(urls[i]))
    /\ UNCHANGED <<urls, delay, save_progress, i, snapshots, json_snapshots,
                   returned, events, faults>>
    /\ UNCHANGED <<main_vars, price_vars, page_vars>>

\* Lines 660-663: the rows so far are written to progress_backup_<i>.csv.
SaveCsv ==
    /\ pc = "to_csv"
    /\ snapshots' = (i :> results) @@ snapshots
    /\ pc' = "to_json"
    /\ UNCHANGED <<urls, delay, save_progress, i, results, json_snapshots,
                   returned, events, last, faults>>
    /\ UNCHANGED <<main_vars, price_vars, page_vars>>

\* Lines 660-662 and 675-677: writing the csv raises; the handler of the
\* loop body appends an error record for the url.
SaveCsvFails ==
    /\ pc = "to_csv"
    /\ MayFail
    /\ \E e \in WriteErrors : results' = Append(results, create_error_record(urls[i], e))
    /\ faults' = faults \cup {<<"csv", i>>}
    /\ pc' = "next"
    /\ UNCHANGED <<urls, delay, save_progress, i, snapshots, json_snapshots,
                   returned, events, last>>
    /\ UNCHANGED <<main_vars, price_vars, page_vars>>

\* Lines 666-671: the rows are written to progress_backup_<i>.json.
SaveJson ==
    /\ pc = "to_json"
    /\ json_snapshots' = (i :> results) @@ json_snapshots
    /\ pc' = "next"
    /\ UNCHANGED <<urls, delay, save_progress, i, results, snapshots,
                   returned, events, last, faults>>
    /\ UNCHANGED <<main_vars, price_vars, page_vars>>

\* Lines 672-673: writing the json raises; a warning is logged.
SaveJsonFails ==
    /\ pc = "to_json"
    /\ MayFail
    /\ faults' = faults \cup {<<"json", i>>}
    /\ pc' = "next"
    /\ UNCHANGED <<urls, delay, save_progress, i, results, snapshots,
                   json_snapshots, returned, events, last>>
    /\ UNCHANGED <<main_vars, price_vars, page_vars>>

\* Line 651: the next url of the list.
NextUrl ==
    /\ pc = "next"
    /\ i < Len(urls)
    /\ i' = i + 1
    /\ pc' = "sleep"
    /\ UNCHANGED <<urls, delay, save_progress, results, snapshots,
                   json_snapshots, returned, events, last, faults>>
    /\ UNCHANGED <<main_vars, price_vars, page_vars>>

\* Line 679: return pd.DataFrame(results)
Return ==
    /\ pc = "next"
    /\ i = Len(urls)
    /\ returned' = results
    /\ pc' = "returned"
    /\ UNCHANGED <<urls, delay, save_progress, i, results, snapshots,
                   json_snapshots, events, last, faults>>
    /\ UNCHANGED <<main_vars, price_vars, page_vars>>

(***************************************************************************)
(* main around the batch run                                               *)
(***************************************************************************)

\* Where scrape_medicines_batch stands while it runs (lines 641-679).
BatchRun == {"call", "sleep", "get", "wait", "extract", "to_csv", "to_json", "next"}

\* Where main stands after the batch run returned (lines 766-786).
AfterBatchRun ==
    {"returned", "sample", "save", "save_excel", "save_json", "report", "finish"}

\* Where main prints (lines 687-700, 774-777, 783-784).
Printing == {"returned", "sample", "report"}

\* Lines 682-684: the counts display_summary prints.
SummaryOf(rows) ==
    [total |-> Len(rows),
     successful |-> Cardinality({k \in 1..Len(rows) : Get(rows[k], "status") = Success})]

\* The handler as it would be if the loop body caught the interrupt as it
\* catches an exception (lines 675-677): an error record is appended and
\* the loop goes on.
CaughtInTheLoop ==
    /\ pc = "interrupted"
    /\ interrupted_at \in BatchRun \ {"call"}
    /\ results' = Append(results, create_error_record(urls[i], <<"K","e","y","b","o","a","r","d","I","n","t","e","r","r","u","p","t">>))
    /\ pc' = "next"
    /\ UNCHANGED <<urls, delay, save_progress, i, snapshots, json_snapshots,
                   returned, events, last, faults>>
    /\ UNCHANGED <<main_vars, price_vars, page_vars>>

\* Ctrl-C: KeyboardInterrupt is raised where the run stands.  It is no
\* Exception, so no handler of scrape_medicine, of the loop body (lines
\* 672, 675) or of save_results (lines 725, 729) catches it.
Interrupt ==
    /\ pc \in BatchRun \cup AfterBatchRun
    /\ interrupted_at' = pc
    /\ pc' = "interrupted"
    /\ UNCHANGED <<urls, delay, save_progress, i, results, snapshots,
                   json_snapshots, returned, events, last, faults>>
    /\ UNCHANGED <<summary, final_files, main_result>>
    /\ UNCHANGED <<price_vars, page_vars>>

\* Lines 788-790: main logs the interruption and returns None.
HandleInterrupt ==
    /\ pc = "interrupted"
    /\ main_result' = None
    /\ pc' = "done"
    /\ UNCHANGED <<urls, delay, save_progress, i, results, snapshots,
                   json_snapshots, returned, events, last, faults>>
    /\ UNCHANGED <<interrupted_at, summary, final_files>>
    /\ UNCHANGED <<price_vars, page_vars>>

\* Lines 766-768: an empty DataFrame; main returns None.
NoDataScraped ==
    /\ pc = "returned"
    /\ returned = <<>>
    /\ main_result' = None
    /\ pc' = "done"
    /\ UNCHANGED <<urls, delay, save_progress, i, results, snapshots,
                   json_snapshots, returned, events, last, faults>>
    /\ UNCHANGED <<interrupted_at, summary, final_files>>
    /\ UNCHANGED <<price_vars, page_vars>>

\* Lines 770-771: display_summary prints the counts and the failed urls.
DisplaySummary ==
    /\ pc = "returned"
    /\ returned # <<>>
    /\ summary' = SummaryOf(returned)
    /\ pc' = "sample"
    /\ UNCHANGED <<urls, delay, save_progress, i, results, snapshots,
                   json_snapshots, returned, events, last, faults>>
    /\ UNCHANGED <<interrupted_at, final_files, main_result>>
    /\ UNCHANGED <<price_vars, page_vars>>

\* Lines 773-777: the first three rows are printed.
ShowSample ==
    /\ pc = "sample"
    /\ pc' = "save"
    /\ UNCHANGED <<urls, delay, save_progress, i, results, snapshots,
                   json_snapshots, returned, events, last, faults>>
    /\ UNCHANGED main_vars
    /\ UNCHANGED <<price_vars, page_vars>>

\* Lines 791-793: a print raises an Exception (a closed pipe, a character
\* the console cannot encode); main logs it and returns None.
UnexpectedError ==
    /\ pc \in Printing
    /\ pc = "returned" => returned # <<>>
    /\ main_result' = None
    /\ pc' = "done"
    /\ UNCHANGED <<urls, delay, save_progress, i, results, snapshots,
                   json_snapshots, returned, events, last, faults>>
    /\ UNCHANGED <<interrupted_at, summary, final_files>>
    /\ UNCHANGED <<price_vars, page_vars>>

\* Lines 706-707: save_results writes the csv file.
SaveResultsCsv ==
    /\ pc = "save"
    /\ final_files' = ("csv" :> returned)
    /\ pc' = "save_excel"
    /\ UNCHANGED <<urls, delay, save_progress, i, results, snapshots,
                   json_snapshots, returned, events, last, faults>>
    /\ UNCHANGED <<interrupted_at, summary, main_result>>
    /\ UNCHANGED <<price_vars, page_vars>>

\* Lines 706 and 729-731: writing the csv raises; save_results returns
\* None, and main prints nothing more (line 782).
SaveResultsFails ==
    /\ pc = "save"
    /\ MayFail
    /\ faults' = faults \cup {<<"final", i>>}
    /\ pc' = "finish"
    /\ UNCHANGED <<urls, delay, save_progress, i, results, snapshots,
                   json_snapshots, returned, events, last>>
    /\ UNCHANGED main_vars
    /\ UNCHANGED <<price_vars, page_vars>>

\* Lines 711-713: the Excel file is written.
SaveResultsExcel ==
    /\ pc = "save_excel"
    /\ final_files' = ("xlsx" :> returned) @@ final_files
    /\ pc' = "save_json"
    /\ UNCHANGED <<urls, delay, save_progress, i, results, snapshots,
                   json_snapshots, returned, events, last, faults>>
    /\ UNCHANGED <<interrupted_at, summary, main_result>>
    /\ UNCHANGED <<price_vars, page_vars>>

\* Lines 714-715: openpyxl is not installed (ImportError); save_results
\* goes on without the Excel file.
SaveResultsWithoutExcel ==
    /\ pc = "save_excel"
    /\ pc' = "save_json"
    /\ UNCHANGED <<urls, delay, save_progress, i, results, snapshots,
                   json_snapshots, returned, events, last, faults>>
    /\ UNCHANGED main_vars
    /\ UNCHANGED <<price_vars, page_vars>>

\* Lines 712 and 729-731: writing the Excel file raises another Exception;
\* save_results returns None without writing the JSON file.
SaveResultsExcelFails ==
    /\ pc = "save_excel"
    /\ pc' = "finish"
    /\ UNCHANGED <<urls, delay, save_progress, i, results, snapshots,
                   json_snapshots, returned, events, last, faults>>
    /\ UNCHANGED main_vars
    /\ UNCHANGED <<price_vars, page_vars>>

\* Lines 718-724: the JSON file is written; save_results returns the name
\* of the csv file.
SaveResultsJson ==
    /\ pc = "save_json"
    /\ final_files' = ("json" :> returned) @@ final_files
    /\ pc' = "report"
    /\ UNCHANGED <<urls, delay, save_progress, i, results, snapshots,
                   json_snapshots, returned, events, last, faults>>
    /\ UNCHANGED <<interrupted_at, summary, main_result>>
    /\ UNCHANGED <<price_vars, page_vars>>

\* Lines 725-727: writing the JSON file raises; save_results logs it and
\* returns the name of the csv file.
SaveResultsJsonFails ==
    /\ pc = "save_json"
    /\ pc' = "report"
    /\ UNCHANGED <<urls, delay, save_progress, i, results, snapshots,
                   json_snapshots, returned, events, last, faults>>
    /\ UNCHANGED main_vars
    /\ UNCHANGED <<price_vars, page_vars>>

\* Lines 782-784: main prints where the results are.
ReportSaved ==
    /\ pc = "report"
    /\ pc' = "finish"
    /\ UNCHANGED <<urls, delay, save_progress, i, results, snapshots,
                   json_snapshots, returned, events, last, faults>>
    /\ UNCHANGED main_vars
    /\ UNCHANGED <<price_vars, page_vars>>

\* Line 786: main returns the DataFrame.
MainReturns ==
    /\ pc = "finish"
    /\ main_result' = returned
    /\ pc' = "done"
    /\ UNCHANGED <<urls, delay, save_progress, i, results, snapshots,
                   json_snapshots, returned, events, last, faults>>
    /\ UNCHANGED <<interrupted_at, summary, final_files>>
    /\ UNCHANGED <<price_vars, page_vars>>

(***************************************************************************)
(* The price functions called on a text                                    *)
(***************************************************************************)

InitPrice ==
    /\ price_text \in PriceTexts
    /\ parsed_prices = None
    /\ cleaned_price = None

ParsePrice ==
    /\ parsed_prices = None
    /\ parsed_prices' = parse_price_info(price_text)
    /\ UNCHANGED <<price_text, cleaned_price>>
    /\ UNCHANGED <<batch_vars, page_vars>>

CleanPrice ==
    /\ cleaned_price = None
    /\ cleaned_price' = clean_price_text(price_text)
    /\ UNCHANGED <<price_text, parsed_prices>>
    /\ UNCHANGED <<batch_vars, page_vars>>

(***************************************************************************)
(* The extractors called on a document                                     *)
(***************************************************************************)

InitField ==
    /\ soup \in Documents
    /\ selectors \in SelectorLists
    /\ field_text = None
    /\ record = None

InitPage ==
    /\ soup \in Documents
    /\ selectors = <<>>
    /\ field_text = None
    /\ record = None

ExtractField ==
    /\ field_text = None
    /\ field_text' = extract_field(soup, selectors)
    /\ UNCHANGED <<soup, selectors, record>>
    /\ UNCHANGED <<batch_vars, price_vars>>

ScrapePage ==
    /\ record = None
    /\ record' = scrape_medicine(PageUrl, [kind |-> "ok", doc |-> soup])
    /\ UNCHANGED <<soup, selectors, field_text>>
    /\ UNCHANGED <<batch_vars, price_vars>>

\* Lines 137-142: the request of the page, or the extraction, raises.
ScrapePageFails ==
    /\ record = None
    /\ \/ \E e \in RequestErrors :
             record' = scrape_medicine(PageUrl, [kind |-> "request_error", msg |-> e])
       \/ \E e \in ParseErrors :
             record' = scrape_medicine(PageUrl, [kind |-> "error", msg |-> e])
    /\ UNCHANGED <<soup, selectors, field_text>>
    /\ UNCHANGED <<batch_vars, price_vars>>

\* A price text, and a page that carries it.
InitPricePage ==
    /\ InitPrice
    /\ soup \in PricePages(price_text)
    /\ selectors = <<>>
    /\ field_text = None
    /\ record = None

(***************************************************************************)
(* Specifications                                                          *)
(***************************************************************************)

IdlePrice == price_text = <<>> /\ parsed_prices = None /\ cleaned_price = None

IdlePage == soup = NoDocument /\ selectors = <<>> /\ field_text = None /\ record = None

IdleBatch ==
    /\ urls = <<>> /\ delay = 0 /\ save_progress = FALSE /\ pc = "idle" /\ i = 0
    /\ results = <<>> /\ snapshots = <<>> /\ json_snapshots = <<>> /\ returned = <<>>
    /\ events = <<>> /\ last = [i |-> 0, kind |-> "none", rec |-> <<>>] /\ faults = {}
    /\ interrupted_at = "none" /\ summary = None /\ final_files = <<>> /\ main_result = None

\* A batch run, and what main does with the DataFrame it returns.
Init == InitBatch /\ IdlePrice /\ IdlePage

Next ==
    \/ Call
    \/ Sleep
    \/ SendRequest
    \/ RequestFails
    \/ ResponseArrives
    \/ ExtractFails
    \/ Extract
    \/ SaveCsv
    \/ SaveCsvFails
    \/ SaveJson
    \/ SaveJsonFails
    \/ NextUrl
    \/ Return
    \/ Interrupt
    \/ HandleInterrupt
    \/ NoDataScraped
    \/ DisplaySummary
    \/ ShowSample
    \/ UnexpectedError
    \/ SaveResultsCsv
    \/ SaveResultsFails
    \/ SaveResultsExcel
    \/ SaveResultsWithoutExcel
    \/ SaveResultsExcelFails
    \/ SaveResultsJson
    \/ SaveResultsJsonFails
    \/ ReportSaved
    \/ MainReturns

Spec == Init /\ [][Next]_vars

\* parse_price_info and clean_price_text on the price texts.
PriceInit == InitPrice /\ IdleBatch /\ IdlePage

PriceNext == ParsePrice \/ CleanPrice

PriceSpec == PriceInit /\ [][PriceNext]_vars

\* extract_field on the documents and the selector lists.
FieldInit == InitField /\ IdleBatch /\ IdlePrice

FieldNext == ExtractField

FieldSpec == FieldInit /\ [][FieldNext]_vars

\* scrape_medicine on the documents.
PageInit == InitPage /\ IdleBatch /\ IdlePrice

PageNext == ScrapePage

PageSpec == PageInit /\ [][PageNext]_vars

\* parse_price_info on a price text, then scrape_medicine on a page that
\* carries the text.
PricePageInit == InitPricePage /\ IdleBatch

PricePageNext ==
    \/ ParsePrice
    \/ parsed_prices # None /\ ScrapePage
    \/ parsed_prices # None /\ ScrapePageFails

PricePageSpec == PricePageInit /\ [][PricePageNext]_vars

(***************************************************************************)
(* Properties of the batch run                                             *)
(***************************************************************************)

\* Lines 121-132 and 616-627: the keys of a record, in order.
Columns ==
    <<"name", "mrp", "discounted_price", "price", "quantity", "image",
      "manufacturer", "composition", "url", "status">>

\* The eight data fields of a record.
DataFields ==
    {"name", "mrp", "discounted_price", "price", "quantity", "image",
     "manufacturer", "composition"}

\* The rows whose k-th carries the k-th url, one row per url.
OneRowPerUrl(rows, n) ==
    /\ Len(rows) = n
    /\ \A k \in 1..n : Get(rows[k], "url") = urls[k]

\* C1: the batch returns one record per input url, in input order: the
\* result is as long as the url list and its k-th record carries the k-th
\* url, whatever fetching, extraction and snapshot writing did.
C1_OneRecordPerUrl == pc = "returned" => OneRowPerUrl(returned, Len(urls))

\* The eight data fields of the record are "Error".
AllError(rec) == \A f \in DataFields : Get(rec, f) = Error

\* The urls at which neither the request nor the extraction failed.
Unfailed == {k \in 1..Len(urls) : <<"request", k>> \notin faults /\ <<"parse", k>> \notin faults}

\* C2: a failed fetch gives a record with the eight data fields "Error" and
\* a status that begins with "Network error", an exception while the page is
\* read gives the same with "Parsing error"; the run goes on, and at its end
\* every url was requested and every url that did not fail has the record
\* of its page.
C2_FailureGivesErrorRecord ==
    /\ last.kind = "request_error" =>
          /\ AllError(last.rec)
          /\ Get(last.rec, "url") = urls[last.i]
          /\ StartsWith(Get(last.rec, "status"), <<"N","e","t","w","o","r","k"," ","e","r","r","o","r">>)
    /\ last.kind = "error" =>
          /\ AllError(last.rec)
          /\ Get(last.rec, "url") = urls[last.i]
          /\ StartsWith(Get(last.rec, "status"), <<"P","a","r","s","i","n","g"," ","e","r","r","o","r">>)
    /\ pc = "returned" =>
          /\ \A k \in 1..Len(urls) : \E n \in 1..Len(events) :
                events[n].e = "request" /\ events[n].i = k
          /\ \A k \in Unfailed : \E n \in 1..Len(returned) :
                returned[n] = ScrapedPage(urls[k])

\* A 4-url run has returned with one request failed: three records are
\* "Success" and one is the "Network error" record.
C2_Witness ==
    /\ pc = "returned"
    /\ Len(urls) = 4
    /\ \E k \in 1..4 : <<"request", k>> \in faults
    /\ Cardinality({n \in 1..Len(returned) : Get(returned[n], "status") = Success}) = 3
    /\ \E n \in 1..Len(returned) :
          /\ AllError(returned[n])
          /\ StartsWith(Get(returned[n], "status"), <<"N","e","t","w","o","r","k"," ","e","r","r","o","r">>)

\* Every row has the ten columns in order, none of them null.
WellFormed(rows) ==
    \A k \in 1..Len(rows) :
        /\ Keys(rows[k]) = Columns
        /\ \A c \in 1..Len(rows[k]) : rows[k][c][2] # None

\* C3: at every point of a batch run every accumulated record has the ten
\* keys name, mrp, discounted_price, price, quantity, image, manufacturer,
\* composition, url, status in this order, each with a value that is not
\* null; so have the rows of every snapshot and of the result returned.
C3_TenColumnsNeverNull ==
    /\ WellFormed(results)
    /\ WellFormed(returned)
    /\ \A k \in DOMAIN snapshots : WellFormed(snapshots[k])
    /\ \A k \in DOMAIN json_snapshots : WellFormed(json_snapshots[k])

\* A snapshot was written that holds a success record and an error record.
C3_Witness ==
    \E k \in DOMAIN snapshots :
        /\ \E n \in 1..Len(snapshots[k]) : Get(snapshots[k][n], "status") = Success
        /\ \E n \in 1..Len(snapshots[k]) : AllError(snapshots[k][n])

\* The numbered files written so far.
Written(files) ==
    \A k \in DOMAIN files :
        /\ k > 0
        /\ k % 5 = 0
        /\ OneRowPerUrl(files[k], k)

\* C4: with progress saving, the snapshot numbered k is written when the
\* k-th record is complete, k a positive multiple of 5, and it holds the k
\* records of the first k urls in order; no snapshot has another number.
C4_SnapshotHoldsItsNumberOfRecords ==
    /\ Written(snapshots)
    /\ Written(json_snapshots)
    /\ (save_progress /\ pc = "to_csv") => (i % 5 = 0 /\ OneRowPerUrl(results, i))
    /\ ~save_progress => snapshots = <<>> /\ json_snapshots = <<>>

\* The numbers of the urls requested so far, in the order of the requests.
IsRequest(ev) == ev.e = "request"

Requested == SelectSeq(events, IsRequest)

IsAnswer(ev) == ev.e \in {"failed", "response"}

\* C5: in a batch run the urls are requested in input order, each once
\* (no retry, none skipped), a request is sent only when the one before was
\* answered, and each request comes right after one sleep of `delay`
\* seconds.
C5_OneFetchPerUrlAfterOneDelay ==
    /\ \A k \in 1..Len(Requested) : Requested[k].i = k
    /\ pc = "returned" => Len(Requested) = Len(urls)
    /\ Len(Requested) - Len(SelectSeq(events, IsAnswer)) =
          IF pc = "wait" \/ (pc \in {"interrupted", "done"} /\ interrupted_at = "wait")
          THEN 1 ELSE 0
    /\ \A n \in 1..Len(events) :
          events[n].e = "request" =>
             /\ n > 1
             /\ events[n - 1] = [e |-> "sleep", i |-> events[n].i, secs |-> delay]
             /\ n > 2 => events[n - 2].e # "sleep"

\* A run of three urls or more with a 2-second delay has returned after a
\* request failed.
C5_Witness ==
    /\ pc = "returned"
    /\ Len(urls) >= 3
    /\ delay = 2
    /\ \E k \in 1..Len(urls) : <<"request", k>> \in faults
    /\ Len(Requested) = Len(urls)

(***************************************************************************)
(* Properties of scrape_medicine and extract_field                         *)
(***************************************************************************)

\* The selector lists of scrape_medicine and of the extractors it calls.
AllSelectorLists ==
    {name_selectors, manufacturer_selectors, composition_selectors,
     quantity_selectors, price_containers, individual_selectors, image_selectors}

\* No selector of any list selects a tag, and no fallback finds anything:
\* no quantity pattern in the text of the page, no img that names 1mg, no
\* JSON-LD image, no og:image.
NothingMatches(doc) ==
    /\ \A sels \in AllSelectorLists : \A k \in 1..Len(sels) : select_one(doc, sels[k]) = 0
    /\ ~FirstSearch(quantity_patterns, get_text(doc)).ok
    /\ ImageFromAnyImg(doc, PageUrl, 1) = None
    /\ ImageFromJsonLd(doc, PageUrl, 1) = None
    /\ ImageFromMeta(doc, PageUrl) = None

\* C6: a page that was fetched and on which no selector and no fallback
\* pattern matches gives a record whose eight data fields are "N/A" and
\* whose status is "Success".
C6_NothingFoundIsSuccess ==
    (record # None /\ NothingMatches(soup)) =>
        /\ \A f \in DataFields : Get(record, f) = NA
        /\ Get(record, "status") = Success
        /\ Get(record, "url") = PageUrl

\* A page with a tag and text on it, none of which any selector or pattern
\* matches, was scraped.
C6_Witness ==
    /\ record # None
    /\ NothingMatches(soup)
    /\ \E n \in 1..Len(soup.nodes) : soup.nodes[n].text # <<>>

\* The usable value of a selector: None when it selects no tag, when the
\* text is empty or when the cleanup of a price selector yields "N/A".
UsableValue(doc, selector) ==
    IF select_one(doc, selector) = 0 THEN None
    ELSE IF get_text_strip(doc, select_one(doc, selector)) = <<>> THEN None
    ELSE IF ~IsPriceSelector(selector)
    THEN get_text_strip(doc, select_one(doc, selector))
    ELSE IF clean_price_text(get_text_strip(doc, select_one(doc, selector))) = NA
    THEN None
    ELSE clean_price_text(get_text_strip(doc, select_one(doc, selector)))

\* The selectors of the list that yield a usable value.
Usable(doc, sels) == {k \in 1..Len(sels) : UsableValue(doc, sels[k]) # None}

\* C10: extract_field returns the value of the first selector of the list
\* that yields a usable one, a price selector whose cleanup yields "N/A"
\* being skipped, and "N/A" only when no selector of the list yields one.
C10_FirstUsableSelector ==
    field_text # None =>
        IF Usable(soup, selectors) = {}
        THEN field_text = NA
        ELSE \E k \in Usable(soup, selectors) :
                /\ \A j \in Usable(soup, selectors) : k <= j
                /\ field_text = UsableValue(soup, selectors[k])

(***************************************************************************)
(* Properties of parse_price_info                                          *)
(***************************************************************************)

\* The text is one currency amount and nothing else: "₹199".
BareAmount(text) ==
    LET r == MatchHere(rupee_amount, Strip(text), 1, <<>>)
    IN  r.ok /\ r.end = Len(Strip(text)) + 1

\* C7: a text that holds a single currency amount and no label gives that
\* amount as mrp and as discounted_price.
C7_SinglePriceMirrored ==
    (parsed_prices # None /\ BareAmount(price_text)) =>
        /\ Get(parsed_prices, "mrp") = Strip(price_text)
        /\ Get(parsed_prices, "discounted_price") = Strip(price_text)

\* The number of digits after the decimal point of a price.
FractionLength(price) ==
    IF Contains(price, <<".">>) THEN Len(price) - Find(price, <<".">>) ELSE 0

\* C8: every value other than "N/A" that parse_price_info returns has two
\* fractional digits at most, whichever pattern produced it.
C8_TwoDecimalsAtMost ==
    parsed_prices # None =>
        \A f \in {"mrp", "discounted_price"} :
            Get(parsed_prices, f) # NA => FractionLength(Get(parsed_prices, f)) <= 2

\* The amounts the positional rule reads.
Amounts(text) == FindAll(rupee_amount, text)

\* The positional rule has what it needs: 'MRP', '₹' and two amounts.
PositionalApplies(text) ==
    Contains(text, <<"M","R","P">>) /\ Contains(text, <<"₹">>) /\ Len(Amounts(text)) >= 2

\* C9 as claimed: the positional rule takes effect only when both labelled
\* searches failed; when exactly one matched, the other field mirrors it.
C9_PositionalOnlyWhenBothFailed ==
    parsed_prices # None =>
        LET text == Normalize(price_text)
        IN  /\ (LabelledMrp(text) # NA /\ LabelledDiscount(text) = NA) =>
                  Get(parsed_prices, "discounted_price") = LabelledMrp(text)
            /\ (LabelledMrp(text) = NA /\ LabelledDiscount(text) # NA) =>
                  Get(parsed_prices, "mrp") = LabelledDiscount(text)

\* C9: the positional rule fills each field on its own: with 'MRP', '₹'
\* and two amounts or more in the text, the first amount is the mrp unless
\* an MRP-labelled pattern matched and the second is the discounted price
\* unless a discount-labelled pattern matched; without them a field that is
\* missing mirrors the other.
C9_PositionalFillsEachMissingField ==
    parsed_prices # None =>
        LET text == Normalize(price_text)
            mrp == LabelledMrp(text)
            discounted == LabelledDiscount(text)
        IN  IF PositionalApplies(text)
            THEN /\ Get(parsed_prices, "mrp") =
                       IF mrp # NA THEN mrp ELSE Rupee \o Head(Amounts(text))
                 /\ Get(parsed_prices, "discounted_price") =
                       IF discounted # NA THEN discounted ELSE Rupee \o Head(Tail(Amounts(text)))
            ELSE /\ Get(parsed_prices, "mrp") = IF mrp # NA THEN mrp ELSE discounted
                 /\ Get(parsed_prices, "discounted_price") =
                       IF discounted # NA THEN discounted ELSE mrp

\* A text was parsed in which the MRP label matched, no discount label did,
\* and the second amount became the discounted price.
C9_Witness ==
    /\ parsed_prices # None
    /\ PositionalApplies(Normalize(price_text))
    /\ LabelledMrp(Normalize(price_text)) # NA
    /\ LabelledDiscount(Normalize(price_text)) = NA
    /\ Get(parsed_prices, "discounted_price") = Rupee \o Head(Tail(Amounts(Normalize(price_text))))
    /\ Get(parsed_prices, "discounted_price") # Get(parsed_prices, "mrp")

(***************************************************************************)
(* Properties of extract_image and extract_quantity                        *)
(***************************************************************************)

\* The url has a scheme and a host.
IsAbsolute(url) == StartsWith(url, <<"h","t","t","p",":","/","/">>) \/ StartsWith(url, <<"h","t","t","p","s",":","/","/">>)

\* The path of a url: what follows the host, without parameters, query
\* and fragment.
PathOf(url) == urlparse(url, <<>>).path

\* The path of the url ends with an image extension.
PathEndsWithExtension(url) ==
    \E k \in 1..Len(image_extensions) : EndsWith(Lower(PathOf(url)), image_extensions[k])

\* C11: an image url that extract_image takes from a tag matched by one of
\* the image selectors is absolute and its path ends with .jpg, .jpeg,
\* .png, .webp or .gif; a source of another kind is not returned for that
\* selector.
C11_SelectorImageEndsWithExtension ==
    (record # None /\ ImageFromSelectors(soup, PageUrl, image_selectors) # None) =>
        /\ IsAbsolute(Get(record, "image"))
        /\ PathEndsWithExtension(Get(record, "image"))

\* The numbers of the text that a unit word follows: group(1) of the
\* matches of the number-and-unit pattern at every position.
UnitNumbers(text) ==
    {MatchHere(quantity_unit, text, p, <<>>).cap :
        p \in {q \in 1..Len(text) : MatchHere(quantity_unit, text, q, <<>>).ok}}

\* The number without a trailing ".0".
WithoutPointZero(number) ==
    IF Len(number) >= 2 /\ SubSeq(number, Len(number) - 1, Len(number)) = <<".","0">>
    THEN SubSeq(number, 1, Len(number) - 2)
    ELSE number

HasDigit(text) == \E k \in 1..Len(text) : text[k] \in Digits

\* The text of the tag a quantity selector selects, empty without a tag.
QuantityText(doc, k) ==
    IF select_one(doc, quantity_selectors[k]) = 0 THEN <<>>
    ELSE get_text_strip(doc, select_one(doc, quantity_selectors[k]))

\* The quantity selectors whose tag has a text with a digit in it: the
\* first of them decides on the locator path.
QuantityHits(doc) ==
    {k \in 1..Len(quantity_selectors) : HasDigit(QuantityText(doc, k))}

FirstQuantityText(doc) ==
    QuantityText(doc, CHOOSE k \in QuantityHits(doc) : \A j \in QuantityHits(doc) : k <= j)

\* C12: a text in which a number is followed by tablet, tab, strip, capsule
\* or pill (plural or not) gives "<number> tablets", the number being the
\* matched one without a trailing ".0", whatever the unit word: on the
\* locator path for the text of the deciding tag (the leftmost match), on
\* the fallback path for the text of the whole document.
C12_QuantityIsNumberOfTablets ==
    record # None =>
        IF QuantityHits(soup) # {}
        THEN UnitNumbers(FirstQuantityText(soup)) # {} =>
                Get(record, "quantity") =
                    WithoutPointZero(Search(quantity_unit, FirstQuantityText(soup)).cap)
                        \o <<" ","t","a","b","l","e","t","s">>
        ELSE UnitNumbers(get_text(soup)) # {} =>
                \E number \in UnitNumbers(get_text(soup)) :
                    Get(record, "quantity") = WithoutPointZero(number) \o <<" ","t","a","b","l","e","t","s">>

\* A page was scraped on which no quantity selector decides and whose text
\* holds "2 capsules": the quantity is "2 tablets".
C12_Witness ==
    /\ record # None
    /\ QuantityHits(soup) = {}
    /\ <<"2">> \in UnitNumbers(get_text(soup))
    /\ Get(record, "quantity") = <<"2"," ","t","a","b","l","e","t","s">>

(***************************************************************************)
(* Further properties of the batch run                                     *)
(***************************************************************************)

\* The rows a are the first rows of b.
IsPrefix(a, b) == Len(a) <= Len(b) /\ SubSeq(b, 1, Len(a)) = a

\* Every file written holds first rows of `rows`.
PrefixesOf(files, rows) == \A k \in DOMAIN files : IsPrefix(files[k], rows)

\* Of two files written, the one numbered lower holds first rows of the
\* other.
Nested(files) ==
    \A j \in DOMAIN files : \A k \in DOMAIN files :
        j <= k => IsPrefix(files[j], files[k])

\* C13: the accumulated result list is append-only: a step leaves the
\* records appended before as they are and where they are, so every
\* snapshot holds first rows of every later snapshot and of the result
\* returned.
C13_ResultsAppendOnly ==
    /\ [][IsPrefix(results, results')]_vars
    /\ [](/\ PrefixesOf(snapshots, results)
          /\ PrefixesOf(json_snapshots, results)
          /\ Nested(snapshots)
          /\ Nested(json_snapshots)
          /\ pc = "returned" =>
                /\ returned = results
                /\ PrefixesOf(snapshots, returned)
                /\ PrefixesOf(json_snapshots, returned))

\* A run has returned after it wrote two snapshots, the second longer than
\* the first.
C13_Witness ==
    /\ pc = "returned"
    /\ 5 \in DOMAIN snapshots
    /\ 10 \in DOMAIN snapshots
    /\ Len(snapshots[5]) < Len(snapshots[10])
    /\ Len(snapshots[10]) <= Len(returned)

\* A record has both prices, or has neither: both are "N/A", or both are
\* "Error".
BothPricesOrNeither(rec) ==
    /\ Get(rec, "mrp") = NA <=> Get(rec, "discounted_price") = NA
    /\ Get(rec, "mrp") = Error <=> Get(rec, "discounted_price") = Error

\* C15: parse_price_info returns mrp "N/A" exactly when it returns
\* discounted_price "N/A", for every text; and the record scrape_medicine
\* makes of a page that carries the text, or of a failure, has both prices,
\* or "N/A" for both, or "Error" for both.
C15_BothPricesOrNeither ==
    /\ parsed_prices # None =>
          (Get(parsed_prices, "mrp") = NA <=> Get(parsed_prices, "discounted_price") = NA)
    /\ record # None => BothPricesOrNeither(record)

\* parse_price_info has returned for a text in which a labelled MRP was
\* found, no labelled discounted price, and fewer than two amounts, and
\* scrape_medicine has scraped a page where the text stands in an
\* individual price element: the MRP is both prices of the result and of
\* the record.
C15_Witness ==
    /\ parsed_prices # None
    /\ LabelledMrp(Normalize(price_text)) # NA
    /\ LabelledDiscount(Normalize(price_text)) = NA
    /\ Len(FindAll(rupee_amount, Normalize(price_text))) < 2
    /\ Get(parsed_prices, "discounted_price") = LabelledMrp(Normalize(price_text))
    /\ record # None
    /\ Len(soup.nodes) = 2
    /\ Get(record, "status") = Success
    /\ Get(record, "mrp") = LabelledMrp(Normalize(price_text))
    /\ Get(record, "discounted_price") = LabelledMrp(Normalize(price_text))

\* C16: in every record of the result list, of a success or of an error,
\* the price is the discounted price.
C16_PriceIsDiscountedPrice ==
    /\ \A k \in 1..Len(results) :
          Get(results[k], "price") = Get(results[k], "discounted_price")
    /\ pc = "returned" =>
          \A k \in 1..Len(returned) :
              Get(returned[k], "price") = Get(returned[k], "discounted_price")

\* The result list holds the record of a page whose two prices differ and
\* the record of a failure.
C16_Witness ==
    /\ \E k \in 1..Len(results) :
          /\ Get(results[k], "status") = Success
          /\ Get(results[k], "mrp") # Get(results[k], "discounted_price")
          /\ Get(results[k], "price") # NA
    /\ \E k \in 1..Len(results) : Get(results[k], "price") = Error

\* The interrupt arrived while scrape_medicines_batch ran.
InterruptedBatchRun == interrupted_at \in BatchRun

\* The files there are, each as the rows it holds.
Files ==
    {snapshots[k] : k \in DOMAIN snapshots}
       \cup {json_snapshots[k] : k \in DOMAIN json_snapshots}
       \cup {final_files[f] : f \in DOMAIN final_files}

\* C14: an interrupt that arrives during the batch run aborts the whole
\* run.  From the interrupt on no request is sent and no record collected,
\* no snapshot is written, the summary is never printed and no final file
\* is written, so the files are the snapshots written before the
\* interrupt; main returns None, and the records collected after the last
\* snapshot are in no file.
C14_InterruptAbortsTheRun ==
    /\ [][InterruptedBatchRun' =>
            /\ events' = events
            /\ results' = results
            /\ snapshots' = snapshots
            /\ json_snapshots' = json_snapshots
            /\ returned' = returned
            /\ Files' = Files]_vars
    /\ [](InterruptedBatchRun =>
            /\ pc \in {"interrupted", "done"}
            /\ summary = None
            /\ final_files = <<>>
            /\ returned = <<>>
            /\ pc = "done" => main_result = None
            /\ \A rows \in Files :
                  /\ IsPrefix(rows, results)
                  /\ \/ \E k \in DOMAIN snapshots : rows = snapshots[k]
                     \/ \E k \in DOMAIN json_snapshots : rows = json_snapshots[k])

\* The interrupt arrived while the seventh page was awaited: main has
\* returned None, the snapshot of the first five records is the only file,
\* and the sixth record is in no file.
C14_Witness ==
    /\ pc = "done"
    /\ interrupted_at = "wait"
    /\ i = 7
    /\ DOMAIN snapshots = {5}
    /\ Len(results) = 6
    /\ Files = {SubSeq(results, 1, 5)}
    /\ main_result = None

====
